---- MODULE Spec2Model ----
(***************************************************************************)
(* Model of data_collector.py: the probe parsers (parse_ping, parse_nmap,  *)
(* parse_hping3, parse_hping3_rst, parse_curl, measure_curl_time), the     *)
(* per-host aggregator collect_features, the dataset writer write_csv and  *)
(* the collection loop of main.                                            *)
(*                                                                         *)
(* Text is a sequence of one-character strings, so that the regular        *)
(* expressions of the parsers are matched character by character.  A       *)
(* finite Python float is modelled by the rational it is the nearest       *)
(* double to.                                                              *)
(***************************************************************************)
EXTENDS Integers, Sequences, FiniteSets, TLC

(***************************************************************************)
(* Python values                                                           *)
(***************************************************************************)
\* None, the absent sentinel of run_command
None == <<"None">>
\* '' as the value of an unset feature
Empty == <<"empty">>
PyInt(n) == <<"int", n>>

RECURSIVE GCD(_, _)
GCD(a, b) == IF b = 0 THEN a ELSE GCD(b, a % b)

Abs(n) == IF n < 0 THEN -n ELSE n

\* A finite float is the double nearest to a rational n/d (d > 0), written in
\* lowest terms: what float(text) and int / int give.
PyFloat(n, d) == LET g == GCD(Abs(n), d) IN <<"float", n \div g, d \div g>>
\* the neighbour of that double, u steps of the last bit away (u in -1..1):
\* what a product of two doubles can give
PyFloatOff(n, d, u) == IF u = 0 THEN PyFloat(n, d) ELSE PyFloat(n, d) \o <<u>>
\* inf and -inf, nan, -0.0
PyInf(sign) == <<"inf", sign>>
PyNaN == <<"nan">>
NegZero == <<"negzero">>

IsInt(v) == v[1] = "int"
IsFloat(v) == v[1] \in {"float", "inf", "nan", "negzero"}
IsNumber(v) == IsInt(v) \/ IsFloat(v)
\* numerator and denominator of an int or a finite float
Num(v) == IF v[1] = "negzero" THEN 0 ELSE v[2]
Den(v) == IF v[1] = "float" THEN v[3] ELSE 1
Off(v) == IF v[1] = "float" /\ Len(v) = 4 THEN v[4] ELSE 0

\* bool(v): 0, 0.0, -0.0, '' and None are falsy; nan and inf are truthy
Truthy(v) ==
  CASE v[1] \in {"int", "float"} -> v[2] # 0
    [] v[1] \in {"inf", "nan"} -> TRUE
    [] v[1] = "str" -> v[2] # <<>>
    [] OTHER -> FALSE
\* a > b, a == b and a <= b on ints and finite floats
Gt(a, b) == Num(a) * Den(b) > Num(b) * Den(a)
NumEq(a, b) == Num(a) * Den(b) = Num(b) * Den(a)
Le(a, b) == ~Gt(a, b)

RECURSIVE Pow10(_)
Pow10(k) == IF k = 0 THEN 1 ELSE 10 * Pow10(k - 1)

(***************************************************************************)
(* The binary double nearest to a rational                                 *)
(***************************************************************************)
\* bits of the significand of a double
DoubleBits == 53

\* n/d > 0 scaled by a power of two into [1, 2): numerator, denominator and
\* the exponent e with n/d = (numerator / denominator) * 2^e
RECURSIVE Normalize(_, _, _)
Normalize(n, d, e) ==
  IF n >= 2 * d THEN Normalize(n, 2 * d, e + 1)
  ELSE IF n < d THEN Normalize(2 * n, d, e - 1)
  ELSE <<n, d, e>>

\* k binary digits of r/d < 1, and the remainder after them as the last entry
RECURSIVE FracBits(_, _, _)
FracBits(r, d, k) ==
  IF k = 0 THEN <<r>>
  ELSE IF 2 * r >= d THEN <<1>> \o FracBits(2 * r - d, d, k - 1)
  ELSE <<0>> \o FracBits(2 * r, d, k - 1)

\* bits + 1, the carry running from the last bit; all ones give <<>>
RECURSIVE Increment(_)
Increment(bits) ==
  IF bits = <<>> THEN <<>>
  ELSE IF bits[Len(bits)] = 0 THEN SubSeq(bits, 1, Len(bits) - 1) \o <<1>>
  ELSE LET head == Increment(SubSeq(bits, 1, Len(bits) - 1))
       IN IF head = <<>> THEN <<>> ELSE head \o <<0>>

\* a significand and what was cut off behind it (the next bit, and whether
\* anything follows that bit) rounded to nearest, a tie to the even significand
RoundBits(bits, e, guard, sticky) ==
  IF guard = 1 /\ (sticky \/ bits[Len(bits)] = 1)
  THEN IF Increment(bits) = <<>>
       THEN [exp |-> e + 1, bits |-> <<1>> \o [i \in 1..(Len(bits) - 1) |-> 0]]
       ELSE [exp |-> e, bits |-> Increment(bits)]
  ELSE [exp |-> e, bits |-> bits]

\* the double nearest to n/d > 0: its exponent and the bits of its significand
Double(n, d) ==
  LET nd == Normalize(n, d, 0)
      fb == FracBits(nd[1] - nd[2], nd[2], DoubleBits)
  IN RoundBits(<<1>> \o SubSeq(fb, 1, DoubleBits - 1), nd[3], fb[DoubleBits],
               fb[DoubleBits + 1] # 0)

\* the binary digits of c > 0
RECURSIVE BinOf(_)
BinOf(c) == IF c = 0 THEN <<>> ELSE BinOf(c \div 2) \o <<c % 2>>

\* the binary digits of bits[1..i] * m + carry, the multiplication running
\* from the last bit
RECURSIVE MulBits(_, _, _, _)
MulBits(bits, i, m, carry) ==
  IF i = 0 \/ carry < 0 THEN BinOf(carry)
  ELSE MulBits(bits, i - 1, m, (bits[i] * m + carry) \div 2)
         \o <<(bits[i] * m + carry) % 2>>

\* the double x * m for a double x > 0 and an integer m > 0
DoubleTimes(x, m) ==
  LET p == MulBits(x.bits, DoubleBits, m, 0)
      rest == SubSeq(p, DoubleBits + 2, Len(p))
  IN RoundBits(SubSeq(p, 1, DoubleBits), x.exp + Len(p) - DoubleBits,
               IF Len(p) > DoubleBits THEN p[DoubleBits + 1] ELSE 0,
               \E i \in 1..Len(rest) : rest[i] = 1)

\* the sign of x - y for two doubles
DoubleCmp(x, y) ==
  LET diff == {i \in 1..DoubleBits : x.bits[i] # y.bits[i]}
      first == CHOOSE i \in diff : \A j \in diff : i <= j
  IN IF x.exp # y.exp THEN (IF x.exp > y.exp THEN 1 ELSE -1)
     ELSE IF diff = {} THEN 0
     ELSE IF x.bits[first] = 1 THEN 1 ELSE -1

\* the sign of (the double nearest to n/d) - n/d, for n/d >= 0
ErrSign(n, d) ==
  IF n = 0 THEN 0
  ELSE LET nd == Normalize(n, d, 0)
           fb == FracBits(nd[1] - nd[2], nd[2], DoubleBits)
           guard == fb[DoubleBits]
           rest == fb[DoubleBits + 1]
       IN IF guard = 0 /\ rest = 0 THEN 0
          ELSE IF guard = 1 /\ (rest # 0 \/ fb[DoubleBits - 1] = 1) THEN 1
          ELSE -1

\* x * m for a float x and an integer m > 0, as the double arithmetic gives
\* it: the double nearest to the exact product of the double x
Times(v, m) ==
  CASE v[1] \in {"inf", "nan", "negzero"} -> v
    [] Num(v) = 0 -> v
    [] OTHER ->
       LET n == Abs(Num(v))
           g == GCD(m, Den(v))
           exact == PyFloat(n * (m \div g), Den(v) \div g)
           u == DoubleCmp(DoubleTimes(Double(n, Den(v)), m),
                          Double(Num(exact), Den(exact)))
       IN IF Num(v) < 0 THEN PyFloatOff(-Num(exact), Den(exact), -u)
          ELSE PyFloatOff(Num(exact), Den(exact), u)

\* round(float(v), decimals): the multiple of 10^-decimals nearest to the
\* double, which lies on a tie only if it is the decimal tie exactly; then the
\* even neighbour is taken.  inf, nan and -0.0 are returned as they are.
Round(v, decimals) ==
  IF v[1] \in {"inf", "nan", "negzero"} THEN v
  ELSE LET n == Abs(Num(v))
           scaled == n * Pow10(decimals)
           q == scaled \div Den(v)
           r == scaled % Den(v)
           side == IF Off(v) # 0 THEN (IF Num(v) < 0 THEN -Off(v) ELSE Off(v))
                   ELSE ErrSign(n, Den(v))
           up == \/ 2 * r > Den(v)
                 \/ 2 * r = Den(v) /\ (side > 0 \/ (side = 0 /\ q % 2 = 1))
           m == IF up THEN q + 1 ELSE q
       IN IF Num(v) < 0 /\ m = 0 THEN NegZero
          ELSE PyFloat(IF Num(v) < 0 THEN -m ELSE m, Pow10(decimals))

(***************************************************************************)
(* A call either returns a value or raises                                 *)
(***************************************************************************)
Return(v) == [raised |-> FALSE, value |-> v]
Raise == [raised |-> TRUE, value |-> None]

(***************************************************************************)
(* Characters and the pieces of regular expressions                        *)
(***************************************************************************)
\* \d
Digit == {"0", "1", "2", "3", "4", "5", "6", "7", "8", "9"}
\* [\d.]
DigitDot == Digit \cup {"."}
\* the control characters U+000B (vertical tab) and U+001C to U+001F (file,
\* group, record and unit separator), each written as the character itself
VerticalTab == ""
FileSep == ""
GroupSep == ""
RecordSep == ""
UnitSep == ""
\* U+0085 (next line) and U+00A0 (no-break space), likewise
NextLine == ""
NoBreakSpace == " "
\* the whitespace up to U+00FF that int() and float() take around a number
NumberSpace == {" ", "\n", "\t", "\r", "\f", VerticalTab, NextLine, NoBreakSpace}
\* \s, and what str.strip() takes off: the whitespace up to U+00FF
Space == NumberSpace \cup {FileSep, GroupSep, RecordSep, UnitSep}

DigitVal(c) ==
  CASE c = "0" -> 0 [] c = "1" -> 1 [] c = "2" -> 2 [] c = "3" -> 3 [] c = "4" -> 4
    [] c = "5" -> 5 [] c = "6" -> 6 [] c = "7" -> 7 [] c = "8" -> 8 [] OTHER -> 9

\* str.lower() on one character
Lower(c) ==
  CASE c = "A" -> "a" [] c = "B" -> "b" [] c = "C" -> "c" [] c = "D" -> "d"
    [] c = "E" -> "e" [] c = "F" -> "f" [] c = "G" -> "g" [] c = "H" -> "h"
    [] c = "I" -> "i" [] c = "J" -> "j" [] c = "K" -> "k" [] c = "L" -> "l"
    [] c = "M" -> "m" [] c = "N" -> "n" [] c = "O" -> "o" [] c = "P" -> "p"
    [] c = "Q" -> "q" [] c = "R" -> "r" [] c = "S" -> "s" [] c = "T" -> "t"
    [] c = "U" -> "u" [] c = "V" -> "v" [] c = "W" -> "w" [] c = "X" -> "x"
    [] c = "Y" -> "y" [] c = "Z" -> "z"
    [] c = "À" -> "à" [] c = "Á" -> "á" [] c = "Â" -> "â" [] c = "Ã" -> "ã"
    [] c = "Ä" -> "ä" [] c = "Å" -> "å" [] c = "Æ" -> "æ" [] c = "Ç" -> "ç"
    [] c = "È" -> "è" [] c = "É" -> "é" [] c = "Ê" -> "ê" [] c = "Ë" -> "ë"
    [] c = "Ì" -> "ì" [] c = "Í" -> "í" [] c = "Î" -> "î" [] c = "Ï" -> "ï"
    [] c = "Ð" -> "ð" [] c = "Ñ" -> "ñ" [] c = "Ò" -> "ò" [] c = "Ó" -> "ó"
    [] c = "Ô" -> "ô" [] c = "Õ" -> "õ" [] c = "Ö" -> "ö" [] c = "Ø" -> "ø"
    [] c = "Ù" -> "ù" [] c = "Ú" -> "ú" [] c = "Û" -> "û" [] c = "Ü" -> "ü"
    [] c = "Ý" -> "ý" [] c = "Þ" -> "þ"
    [] OTHER -> c

LowerStr(s) == [i \in 1..Len(s) |-> Lower(s[i])]

\* the literal p occurs in s at position i
LitAt(s, i, p) ==
  /\ i >= 1
  /\ i + Len(p) - 1 <= Len(s)
  /\ \A k \in 1..Len(p) : s[i + k - 1] = p[k]

\* the same under re.IGNORECASE; p is written in lower case
LitAtCI(s, i, p) ==
  /\ i >= 1
  /\ i + Len(p) - 1 <= Len(s)
  /\ \A k \in 1..Len(p) : Lower(s[i + k - 1]) = p[k]

\* p in s
Contains(s, p) == \E i \in 1..(Len(s) - Len(p) + 1) : LitAt(s, i, p)

\* a greedy run of characters of class C from position i: the position after it
RECURSIVE RunEnd(_, _, _)
RunEnd(s, i, C) ==
  IF i > Len(s) \/ s[i] \notin C THEN i ELSE RunEnd(s, i + 1, C)

\* the end of the line position i lies on: '.' does not match a newline
RECURSIVE LineEnd(_, _)
LineEnd(s, i) ==
  IF i > Len(s) \/ s[i] = "\n" THEN i ELSE LineEnd(s, i + 1)

SetMin(S) == CHOOSE x \in S : \A y \in S : x <= y
SetMax(S) == CHOOSE x \in S : \A y \in S : x >= y

\* int(ds) of a run of digits
RECURSIVE ToInt(_)
ToInt(ds) ==
  IF ds = <<>> THEN 0
  ELSE 10 * ToInt(SubSeq(ds, 1, Len(ds) - 1)) + DigitVal(ds[Len(ds)])

\* float(g) accepts a run of [\d.] that has one dot at most and a digit;
\* otherwise it raises ValueError
ValidDecimal(g) ==
  /\ g # <<>>
  /\ \A i \in 1..Len(g) : g[i] \in DigitDot
  /\ Cardinality({i \in 1..Len(g) : g[i] = "."}) <= 1
  /\ \E i \in 1..Len(g) : g[i] \in Digit

\* float(g) of a valid decimal
ParseDecimal(g) ==
  LET dots == {i \in 1..Len(g) : g[i] = "."}
      ip == IF dots = {} THEN g ELSE SubSeq(g, 1, SetMin(dots) - 1)
      fp == IF dots = {} THEN <<>> ELSE SubSeq(g, SetMin(dots) + 1, Len(g))
  IN PyFloat(ToInt(ip \o fp), Pow10(Len(fp)))

\* s without the characters of chars at its ends
StripOf(s, chars) ==
  LET keep == {i \in 1..Len(s) : s[i] \notin chars}
  IN IF keep = {} THEN <<>> ELSE SubSeq(s, SetMin(keep), SetMax(keep))

\* output.strip()
Strip(s) == StripOf(s, Space)

\* digits with single underscores between them, as int() and float() take them
DigitPart(s) ==
  /\ s # <<>>
  /\ \A i \in 1..Len(s) : s[i] \in Digit \cup {"_"}
  /\ s[1] \in Digit
  /\ s[Len(s)] \in Digit
  /\ \A i \in 1..(Len(s) - 1) : ~(s[i] = "_" /\ s[i + 1] = "_")

DigitsOf(s) == SelectSeq(s, LAMBDA c : c \in Digit)

\* s without a leading sign
Unsigned(s) == IF s # <<>> /\ s[1] \in {"+", "-"} THEN Tail(s) ELSE s
Negative(s) == s # <<>> /\ s[1] = "-"

\* int(s): whitespace around, a sign, a digit part; else ValueError
PyIntOf(s) ==
  LET body == Unsigned(StripOf(s, NumberSpace))
  IN IF ~DigitPart(body) THEN Raise
     ELSE Return(IF Negative(StripOf(s, NumberSpace)) THEN -ToInt(DigitsOf(body))
                 ELSE ToInt(DigitsOf(body)))

LitInf == <<"i","n","f">>
LitInfinity == <<"i","n","f","i","n","i","t","y">>
LitNan == <<"n","a","n">>

\* float(s): whitespace around, a sign, then inf, infinity or nan in any case,
\* or digit parts around a dot with an exponent after; else ValueError
PyFloatOf(s) ==
  LET t == StripOf(s, NumberSpace)
      body == LowerStr(Unsigned(t))
      es == {i \in 1..Len(body) : body[i] = "e"}
      mant == IF es = {} THEN body ELSE SubSeq(body, 1, SetMin(es) - 1)
      expo == IF es = {} THEN <<>> ELSE SubSeq(body, SetMin(es) + 1, Len(body))
      dots == {i \in 1..Len(mant) : mant[i] = "."}
      ip == IF dots = {} THEN mant ELSE SubSeq(mant, 1, SetMin(dots) - 1)
      fp == IF dots = {} THEN <<>> ELSE SubSeq(mant, SetMin(dots) + 1, Len(mant))
      valid == /\ ip = <<>> \/ DigitPart(ip)
               /\ fp = <<>> \/ DigitPart(fp)
               /\ ip # <<>> \/ fp # <<>>
               /\ es = {} \/ DigitPart(Unsigned(expo))
      n == ToInt(DigitsOf(ip) \o DigitsOf(fp))
      e == ToInt(DigitsOf(expo))
      k == (IF Negative(expo) THEN -e ELSE e) - Len(DigitsOf(fp))
      x == IF k >= 0 THEN PyFloat(n * Pow10(k), 1) ELSE PyFloat(n, Pow10(-k))
  IN IF body \in {LitInf, LitInfinity} THEN Return(PyInf(IF Negative(t) THEN -1 ELSE 1))
     ELSE IF body = LitNan THEN Return(PyNaN)
     ELSE IF ~valid THEN Raise
     ELSE IF ~Negative(t) THEN Return(x)
     ELSE IF n = 0 THEN Return(NegZero)
     ELSE Return(PyFloat(-Num(x), Den(x)))

\* not output
Falsy(output) == output = None \/ output = <<>>

(***************************************************************************)
(* The literals of the parsers                                             *)
(***************************************************************************)
LitBytesFrom == <<"b","y","t","e","s"," ","f","r","o","m">>
LitIcmpSeq == <<"i","c","m","p","_","s","e","q","=">>
LitTtl == <<"t","t","l","=">>
LitPacketLoss == <<"p","a","c","k","e","t"," ","l","o","s","s">>
LitRtt == <<"r","t","t">>
LitRoundTrip == <<"r","o","u","n","d","-","t","r","i","p">>
LitTcp == <<"/","t","c","p">>
LitFiltered == <<"f","i","l","t","e","r","e","d">>
LitScannedIn == <<"s","c","a","n","n","e","d"," ","i","n"," ">>
LitSeconds == <<" ","s","e","c","o","n","d","s">>
LitFlags == <<"f","l","a","g","s","=">>
LitLen == <<"l","e","n","=">>
LitVia == <<"v","i","a",":">>
LitXCacheColon == <<"x","-","c","a","c","h","e",":">>
LitXProxy == <<"x","-","p","r","o","x","y">>
LitProxyAgent == <<"p","r","o","x","y","-","a","g","e","n","t",":">>
LitXForwarded == <<"x","-","f","o","r","w","a","r","d","e","d">>
LitXSquid == <<"x","-","s","q","u","i","d">>
LitCacheStatus == <<"c","a","c","h","e","-","s","t","a","t","u","s",":">>
LitXCache == <<"x","-","c","a","c","h","e">>
LitSquid == <<"s","q","u","i","d">>

(***************************************************************************)
(* parse_ping                                                              *)
(***************************************************************************)
\* 'bytes from' in output.lower() or 'icmp_seq=' in output.lower()
ReplyMarker(output) ==
  \/ Contains(LowerStr(output), LitBytesFrom)
  \/ Contains(LowerStr(output), LitIcmpSeq)

\* re.search(r'ttl=(\d+)', output, re.IGNORECASE): the group of the leftmost
\* match, None without a match
TtlMatchAt(s, i) == LitAtCI(s, i, LitTtl) /\ i + 4 <= Len(s) /\ s[i + 4] \in Digit

TtlSearch(s) ==
  LET hits == {i \in 1..Len(s) : TtlMatchAt(s, i)}
  IN IF hits = {} THEN None
     ELSE LET i == SetMin(hits) IN SubSeq(s, i + 4, RunEnd(s, i + 4, Digit) - 1)

\* r'(\d+\.?\d*)%\s+packet loss' at position i: the position of the '%'
LossPercentAt(s, i) ==
  LET a == RunEnd(s, i, Digit)
      b == IF a <= Len(s) /\ s[a] = "." THEN a + 1 ELSE a
  IN RunEnd(s, b, Digit)

LossMatchAt(s, i) ==
  LET c == LossPercentAt(s, i)
      w == RunEnd(s, c + 1, Space)
  IN /\ s[i] \in Digit
     /\ c <= Len(s) /\ s[c] = "%"
     /\ w > c + 1
     /\ LitAtCI(s, w, LitPacketLoss)

LossSearch(s) ==
  LET hits == {i \in 1..Len(s) : LossMatchAt(s, i)}
  IN IF hits = {} THEN None
     ELSE LET i == SetMin(hits) IN SubSeq(s, i, LossPercentAt(s, i) - 1)

\* '=\s*[\d.]+/([\d.]+)/' with the '=' at position k: the first and the last
\* position of the group
RttGroupFrom(s, k) == RunEnd(s, RunEnd(s, k + 1, Space), DigitDot) + 1
RttGroupTo(s, k) == RunEnd(s, RttGroupFrom(s, k), DigitDot) - 1

RttTailAt(s, k) ==
  LET a == RunEnd(s, k + 1, Space)
      b == RunEnd(s, a, DigitDot)
      c == RunEnd(s, b + 1, DigitDot)
  IN /\ s[k] = "="
     /\ b > a
     /\ b <= Len(s) /\ s[b] = "/"
     /\ c > b + 1
     /\ c <= Len(s) /\ s[c] = "/"

\* the '=' positions that word.*?= can reach from a match of word at i
RttEquals(s, i, word) ==
  {k \in (i + Len(word))..(LineEnd(s, i + Len(word)) - 1) : RttTailAt(s, k)}

\* re.search(word + r'.*?=\s*[\d.]+/([\d.]+)/', output, re.IGNORECASE)
RttSearch(s, word) ==
  LET hits == {i \in 1..Len(s) : LitAtCI(s, i, word) /\ RttEquals(s, i, word) # {}}
  IN IF hits = {} THEN None
     ELSE LET k == SetMin(RttEquals(s, SetMin(hits), word))
          IN SubSeq(s, RttGroupFrom(s, k), RttGroupTo(s, k))

\* the group of the first of rtt_patterns that matches
RttFirst(s) ==
  IF RttSearch(s, LitRtt) # None THEN RttSearch(s, LitRtt)
  ELSE RttSearch(s, LitRoundTrip)

ParsePingDefaults ==
  [avg_latency |-> Empty, packet_loss |-> Empty, ttl_return |-> Empty,
   icmp_reachable |-> PyInt(0)]

\* the TTL is read only from output that shows a reply
ParsePingTtl(output) ==
  IF ReplyMarker(output) /\ TtlSearch(output) # None
  THEN PyInt(ToInt(TtlSearch(output))) ELSE Empty

parse_ping(output) ==
  IF Falsy(output) THEN Return(ParsePingDefaults)
  ELSE IF RttFirst(output) # None /\ ~ValidDecimal(RttFirst(output)) THEN Raise
  ELSE Return(
    [avg_latency |-> IF RttFirst(output) # None
                     THEN ParseDecimal(RttFirst(output)) ELSE Empty,
     packet_loss |-> IF LossSearch(output) # None
                     THEN ParseDecimal(LossSearch(output)) ELSE Empty,
     ttl_return |-> ParsePingTtl(output),
     icmp_reachable |-> IF ReplyMarker(output) THEN PyInt(1) ELSE PyInt(0)])

(***************************************************************************)
(* parse_nmap                                                              *)
(***************************************************************************)
\* r'\d+/tcp\s+filtered' at position i: the position after the match, 0 if
\* there is none
FilteredEndAt(s, i) ==
  LET e == RunEnd(s, i, Digit)
      w == RunEnd(s, e + 4, Space)
  IN IF e > i /\ LitAtCI(s, e, LitTcp) /\ w > e + 4 /\ LitAtCI(s, w, LitFiltered)
     THEN w + Len(LitFiltered) ELSE 0

\* len(re.findall(r'\d+/tcp\s+filtered', output, re.IGNORECASE)) from position i
RECURSIVE CountFiltered(_, _)
CountFiltered(s, i) ==
  LET hits == {j \in i..Len(s) : FilteredEndAt(s, j) # 0}
  IN IF hits = {} THEN 0
     ELSE 1 + CountFiltered(s, FilteredEndAt(s, SetMin(hits)))

\* re.search(r'scanned in ([\d.]+) seconds', output, re.IGNORECASE)
ScanMatchAt(s, i) ==
  LET a == i + Len(LitScannedIn)
      b == RunEnd(s, a, DigitDot)
  IN LitAtCI(s, i, LitScannedIn) /\ b > a /\ LitAtCI(s, b, LitSeconds)

ScanSearch(s) ==
  LET hits == {i \in 1..Len(s) : ScanMatchAt(s, i)}
  IN IF hits = {} THEN None
     ELSE LET a == SetMin(hits) + Len(LitScannedIn)
          IN SubSeq(s, a, RunEnd(s, a, DigitDot) - 1)

parse_nmap(output) ==
  IF Falsy(output) THEN Return([filtered_ports_count |-> PyInt(0), scan_time |-> Empty])
  ELSE IF ScanSearch(output) # None /\ ~ValidDecimal(ScanSearch(output)) THEN Raise
  ELSE Return(
    [filtered_ports_count |-> PyInt(CountFiltered(output, 1)),
     scan_time |-> IF ScanSearch(output) # None
                   THEN ParseDecimal(ScanSearch(output)) ELSE Empty])

(***************************************************************************)
(* parse_hping3 and parse_hping3_rst                                       *)
(***************************************************************************)
\* r'flags=|len=\d+' (re.IGNORECASE) at position i: the position after the
\* match, 0 if there is none
FlagsLenEndAt(s, i) ==
  IF LitAtCI(s, i, LitFlags) THEN i + Len(LitFlags)
  ELSE IF LitAtCI(s, i, LitLen) /\ i + 4 <= Len(s) /\ s[i + 4] \in Digit
       THEN RunEnd(s, i + 4, Digit)
  ELSE 0

\* len(re.findall(r'flags=|len=\d+', output, re.IGNORECASE)) from position i:
\* every occurrence of either marker is one match, the scan going on after it
RECURSIVE CountFlagsLen(_, _)
CountFlagsLen(s, i) ==
  LET hits == {j \in i..Len(s) : FlagsLenEndAt(s, j) # 0}
  IN IF hits = {} THEN 0
     ELSE 1 + CountFlagsLen(s, FlagsLenEndAt(s, SetMin(hits)))

\* r'^\s*\d+\s+bytes from' (re.MULTILINE, case-sensitive) at position i: the
\* position after the match, 0 if there is none
BytesFromEndAt(s, i) ==
  LET a == RunEnd(s, i, Space)
      b == RunEnd(s, a, Digit)
      c == RunEnd(s, b, Space)
  IN IF (i = 1 \/ s[i - 1] = "\n") /\ b > a /\ c > b /\ LitAt(s, c, LitBytesFrom)
     THEN c + Len(LitBytesFrom) ELSE 0

RECURSIVE CountBytesFrom(_, _)
CountBytesFrom(s, i) ==
  LET hits == {j \in i..Len(s) : BytesFromEndAt(s, j) # 0}
  IN IF hits = {} THEN 0
     ELSE 1 + CountBytesFrom(s, BytesFromEndAt(s, SetMin(hits)))

\* r'flags=.*R' (re.IGNORECASE) at position i: the greedy '.*' runs to the last
\* r or R of the line; the position after the match, 0 if there is none
RstEndAt(s, i) ==
  LET from == i + Len(LitFlags)
      rs == {j \in from..(LineEnd(s, from) - 1) : Lower(s[j]) = "r"}
  IN IF LitAtCI(s, i, LitFlags) /\ rs # {} THEN SetMax(rs) + 1 ELSE 0

\* len(re.findall(r'flags=.*R', output, re.IGNORECASE)) from position i
RECURSIVE CountRst(_, _)
CountRst(s, i) ==
  LET hits == {j \in i..Len(s) : RstEndAt(s, j) # 0}
  IN IF hits = {} THEN 0
     ELSE 1 + CountRst(s, RstEndAt(s, SetMin(hits)))

\* count / sent_count if sent_count > 0 else 0.0
Ratio(count, sent_count) ==
  IF sent_count > 0 THEN PyFloat(count, sent_count) ELSE PyFloat(0, 1)

\* a variant that lets the ratio through as it is
ClampNothing(ratio) == ratio

\* max(0.0, min(1.0, ratio))
Clamp(ratio) ==
  IF Gt(ratio, PyFloat(1, 1)) THEN PyFloat(1, 1)
  ELSE IF Gt(PyFloat(0, 1), ratio) THEN PyFloat(0, 1) ELSE ratio

\* reply_count of parse_hping3, with its fallback to the byte-count lines
ReplyCount(output) ==
  IF CountFlagsLen(output, 1) = 0 THEN CountBytesFrom(output, 1)
  ELSE CountFlagsLen(output, 1)

parse_hping3(output, sent_count) ==
  IF Falsy(output) THEN PyFloat(0, 1)
  ELSE Clamp(Ratio(ReplyCount(output), sent_count))

parse_hping3_rst(output, sent_count) ==
  IF Falsy(output) THEN PyFloat(0, 1)
  ELSE Clamp(Ratio(CountRst(output, 1), sent_count))

(***************************************************************************)
(* parse_curl and measure_curl_time                                        *)
(***************************************************************************)
\* proxy_headers of parse_curl
ProxyHeaders == {LitVia, LitXCacheColon, LitXProxy, LitProxyAgent, LitXForwarded}

parse_curl(output) ==
  IF Falsy(output) THEN [header_modified |-> PyInt(0)]
  ELSE [header_modified |->
          IF \E h \in ProxyHeaders : Contains(LowerStr(output), h)
          THEN PyInt(1) ELSE PyInt(0)]

\* proxy_indicators of the proxy sweep
ProxyIndicators == {LitVia, LitXSquid, LitCacheStatus, LitXCache, LitXForwarded, LitSquid}

\* s.split('\n')[-1]
LastLine(s) ==
  LET nls == {i \in 1..Len(s) : s[i] = "\n"}
  IN IF nls = {} THEN s ELSE SubSeq(s, SetMax(nls) + 1, Len(s))

\* measure_curl_time on the output of its run_command: float() of the last
\* line times 1000, or None when the output is absent or float() raises
CurlTimeOf(output) ==
  IF Falsy(output) THEN None
  ELSE IF PyFloatOf(LastLine(Strip(output))).raised THEN None
  ELSE Times(PyFloatOf(LastLine(Strip(output))).value, 1000)

(***************************************************************************)
(* The feature row                                                         *)
(***************************************************************************)
FEATURE_COLUMNS ==
  <<"timestamp", "host", "avg_latency", "packet_loss", "ttl_return", "icmp_reachable",
    "filtered_ports_count", "scan_time", "syn_ack_ratio", "tcp_reset_ratio",
    "response_time", "header_modified", "firewall_label">>

Columns == {FEATURE_COLUMNS[i] : i \in 1..Len(FEATURE_COLUMNS)}

\* a str value
PyStr(s) == <<"str", s>>

\* features.update(d)
Update(features, d) ==
  [c \in DOMAIN features |-> IF c \in DOMAIN d THEN d[c] ELSE features[c]]

\* the row of collect_features before the first probe: timestamp and host set,
\* every other column ''
InitFeatures(ip, now) ==
  [c \in Columns |->
     IF c = "timestamp" THEN PyInt(now)
     ELSE IF c = "host" THEN PyStr(ip) ELSE Empty]

\* the -c argument of both hping3 commands, passed on to the parsers
SentCount == 5

\* a variant that takes a probe without output for an error
StepPingOrFail(features, output) ==
  IF output = None \/ parse_ping(output).raised THEN Raise
  ELSE Return(Update(features, parse_ping(output).value))

\* L3, the standard ping
StepPing(features, output) ==
  IF parse_ping(output).raised THEN Raise
  ELSE Return(Update(features, parse_ping(output).value))

\* the packet loss of the large-packet ping replaces the one of the row when it
\* is truthy and the row has none or a smaller one
LargeLossWins(features, loss) ==
  Truthy(loss) /\ (~Truthy(features.packet_loss) \/ Gt(loss, features.packet_loss))

\* a variant that takes the packet loss of the large-packet ping as it comes
StepPingLargeOverwriting(features, output) ==
  IF Falsy(output) THEN Return(features)
  ELSE IF parse_ping(output).raised THEN Raise
  ELSE IF parse_ping(output).value.packet_loss # Empty
       THEN Return([features EXCEPT !.packet_loss = parse_ping(output).value.packet_loss])
  ELSE Return(features)

\* a variant in which a reply to the large-packet ping makes the host reachable
StepPingLargeReachable(features, output) ==
  IF Falsy(output) THEN Return(features)
  ELSE IF parse_ping(output).raised THEN Raise
  ELSE LET large == parse_ping(output).value
           f == IF large.icmp_reachable = PyInt(1)
                THEN [features EXCEPT !.icmp_reachable = PyInt(1)] ELSE features
       IN IF LargeLossWins(features, large.packet_loss)
          THEN Return([f EXCEPT !.packet_loss = large.packet_loss])
          ELSE Return(f)

\* L3, the large-packet ping: only its packet loss can reach the row
StepPingLarge(features, output) ==
  IF Falsy(output) THEN Return(features)
  ELSE IF parse_ping(output).raised THEN Raise
  ELSE IF LargeLossWins(features, parse_ping(output).value.packet_loss)
       THEN Return([features EXCEPT !.packet_loss = parse_ping(output).value.packet_loss])
  ELSE Return(features)

\* L4, the port scan
StepNmap(features, output) ==
  IF parse_nmap(output).raised THEN Raise
  ELSE Return(Update(features, parse_nmap(output).value))

\* L4, the SYN test on port 80 and the one on port 22
StepSyn(features, output) ==
  Return([features EXCEPT !.syn_ack_ratio = parse_hping3(output, SentCount)])

StepRst(features, output) ==
  Return([features EXCEPT !.tcp_reset_ratio = parse_hping3_rst(output, SentCount)])

\* L7: if response_time := measure_curl_time(ip): a time of 0.0 is falsy too
StepCurlTime(features, output) ==
  IF CurlTimeOf(output) # None /\ Truthy(CurlTimeOf(output))
  THEN Return([features EXCEPT !.response_time = CurlTimeOf(output)])
  ELSE Return(features)

\* L7, the header probe, and features.get('header_modified') or 0
StepHeaders(features, output) ==
  LET f == IF Falsy(output) THEN features ELSE Update(features, parse_curl(output))
  IN Return([f EXCEPT !.header_modified =
                        IF Truthy(f.header_modified) THEN f.header_modified ELSE PyInt(0)])

\* proxy_ports of the sweep
proxy_ports == <<3128, 8080, 8888>>

\* a response of the sweep that carries one of proxy_indicators
ProxyDetected(output) ==
  ~Falsy(output) /\ \E ind \in ProxyIndicators : Contains(LowerStr(output), ind)

\* decimal_formats
decimal_formats ==
  [avg_latency |-> 3, scan_time |-> 2, packet_loss |-> 2,
   syn_ack_ratio |-> 3, tcp_reset_ratio |-> 3, response_time |-> 3]

\* the rounding loop over decimal_formats
RoundFields(features) ==
  [c \in DOMAIN features |->
     IF c \in DOMAIN decimal_formats /\ features[c] # Empty
     THEN Round(features[c], decimal_formats[c]) ELSE features[c]]

\* a variant that takes the label of a key the host starts with
ApplyLabelByPrefix(features, ip, label_map) ==
  LET keys == {k \in DOMAIN label_map : Len(k) <= Len(ip) /\ SubSeq(ip, 1, Len(k)) = k}
  IN IF keys # {}
     THEN [features EXCEPT !.firewall_label =
             PyInt(label_map[CHOOSE k \in keys : \A j \in keys : Len(j) <= Len(k)])]
     ELSE features

\* if ip in LABEL_MAP: features['firewall_label'] = LABEL_MAP[ip]
ApplyLabel(features, ip, label_map) ==
  IF ip \in DOMAIN label_map
  THEN [features EXCEPT !.firewall_label = PyInt(label_map[ip])]
  ELSE features

(***************************************************************************)
(* The command line: --label-map, --targets, --targets-file                *)
(***************************************************************************)
\* s.split(sep) for a one-character sep
RECURSIVE Split(_, _)
Split(s, sep) ==
  LET at == {i \in 1..Len(s) : s[i] = sep}
  IN IF at = {} THEN <<s>>
     ELSE <<SubSeq(s, 1, SetMin(at) - 1)>> \o Split(SubSeq(s, SetMin(at) + 1, Len(s)), sep)

\* mapping.split('=', 1): the text before and after the first '='
BeforeEq(m) == SubSeq(m, 1, SetMin({i \in 1..Len(m) : m[i] = "="}) - 1)
AfterEq(m) == SubSeq(m, SetMin({i \in 1..Len(m) : m[i] = "="}) + 1, Len(m))

\* if '=' in mapping
HasEq(m) == "=" \in {m[i] : i \in 1..Len(m)}

\* the dict comprehension of main over the mappings ms: an item without '=' is
\* skipped, key and label are stripped, the label goes through int(), a later
\* item replaces an earlier one
RECURSIVE LabelMapOf(_)
LabelMapOf(ms) ==
  IF ms = <<>> THEN <<>>
  ELSE LET m == ms[Len(ms)]
           rest == LabelMapOf(SubSeq(ms, 1, Len(ms) - 1))
       IN IF ~HasEq(m) THEN rest
          ELSE [k \in DOMAIN rest \cup {Strip(BeforeEq(m))} |->
                  IF k = Strip(BeforeEq(m)) THEN PyIntOf(Strip(AfterEq(m))).value ELSE rest[k]]

\* LABEL_MAP as main builds it from args.label_map: without the option it stays
\* {}, and a label int() does not take ends main by a ValueError
ParseLabelMap(arg) ==
  IF arg = <<>> THEN Return(<<>>)
  ELSE IF \E i \in 1..Len(Split(arg, ",")) :
            HasEq(Split(arg, ",")[i]) /\ PyIntOf(Strip(AfterEq(Split(arg, ",")[i]))).raised
  THEN Raise
  ELSE Return(LabelMapOf(Split(arg, ",")))

\* [x.strip() for x in xs]
StripAll(xs) == [i \in 1..Len(xs) |-> Strip(xs[i])]

\* --targets-file is not given
NoTargetsFile == [given |-> FALSE, exists |-> FALSE, lines |-> <<>>]

\* "Parse target IPs": the entries of --targets between the commas, stripped,
\* or else the lines of --targets-file that are not blank, stripped.  exit
\* names the sys.exit(1) taken: for a file that is missing, for neither
\* option, for an empty list.
ParseTargets(a) ==
  LET found == IF ~Falsy(a.targets) THEN StripAll(Split(a.targets, ","))
               ELSE SelectSeq(StripAll(a.targets_file.lines), LAMBDA ip : ip # <<>>)
  IN IF Falsy(a.targets) /\ a.targets_file.given /\ ~a.targets_file.exists
     THEN [exit |-> "File not found", targets |-> <<>>]
     ELSE IF Falsy(a.targets) /\ ~a.targets_file.given
     THEN [exit |-> "usage", targets |-> <<>>]
     ELSE IF found = <<>>
     THEN [exit |-> "No target IPs provided", targets |-> <<>>]
     ELSE [exit |-> "", targets |-> found]

\* required_tools of check_required_tools
required_tools == <<"ping", "nmap", "curl", "hping3">>

\* missing_tools, given the tools shutil.which finds
missing_tools(installed) == SelectSeq(required_tools, LAMBDA tool : tool \notin installed)

(***************************************************************************)
(* write_csv                                                               *)
(***************************************************************************)
\* "timestamp"
ColTimestamp ==
  <<"t","i","m","e","s","t","a","m","p">>
\* "host"
ColHost ==
  <<"h","o","s","t">>
\* "avg_latency"
ColAvgLatency ==
  <<"a","v","g","_","l","a","t","e","n","c","y">>
\* "packet_loss"
ColPacketLoss ==
  <<"p","a","c","k","e","t","_","l","o","s","s">>
\* "ttl_return"
ColTtlReturn ==
  <<"t","t","l","_","r","e","t","u","r","n">>
\* "icmp_reachable"
ColIcmpReachable ==
  <<"i","c","m","p","_","r","e","a","c","h","a","b","l","e">>
\* "filtered_ports_count"
ColFilteredPortsCount ==
  <<"f","i","l","t","e","r","e","d","_","p","o","r","t","s","_","c","o","u","n","t">>
\* "scan_time"
ColScanTime ==
  <<"s","c","a","n","_","t","i","m","e">>
\* "syn_ack_ratio"
ColSynAckRatio ==
  <<"s","y","n","_","a","c","k","_","r","a","t","i","o">>
\* "tcp_reset_ratio"
ColTcpResetRatio ==
  <<"t","c","p","_","r","e","s","e","t","_","r","a","t","i","o">>
\* "response_time"
ColResponseTime ==
  <<"r","e","s","p","o","n","s","e","_","t","i","m","e">>
\* "header_modified"
ColHeaderModified ==
  <<"h","e","a","d","e","r","_","m","o","d","i","f","i","e","d">>
\* "firewall_label"
ColFirewallLabel ==
  <<"f","i","r","e","w","a","l","l","_","l","a","b","e","l">>

\* the cell csv.DictWriter writes for a column name
ColumnName(c) ==
  CASE c = "timestamp" -> ColTimestamp [] c = "host" -> ColHost
    [] c = "avg_latency" -> ColAvgLatency [] c = "packet_loss" -> ColPacketLoss
    [] c = "ttl_return" -> ColTtlReturn [] c = "icmp_reachable" -> ColIcmpReachable
    [] c = "filtered_ports_count" -> ColFilteredPortsCount [] c = "scan_time" -> ColScanTime
    [] c = "syn_ack_ratio" -> ColSynAckRatio [] c = "tcp_reset_ratio" -> ColTcpResetRatio
    [] c = "response_time" -> ColResponseTime [] c = "header_modified" -> ColHeaderModified
    [] OTHER -> ColFirewallLabel

DigitChar(d) ==
  CASE d = 0 -> "0" [] d = 1 -> "1" [] d = 2 -> "2" [] d = 3 -> "3" [] d = 4 -> "4"
    [] d = 5 -> "5" [] d = 6 -> "6" [] d = 7 -> "7" [] d = 8 -> "8" [] OTHER -> "9"

\* str(n) of an int
RECURSIVE IntToStr(_)
IntToStr(n) ==
  IF n < 0 THEN <<"-">> \o IntToStr(-n)
  ELSE IF n < 10 THEN <<DigitChar(n)>>
  ELSE IntToStr(n \div 10) \o <<DigitChar(n % 10)>>

\* the digits of the fraction r/d, d a power of ten, without trailing zeros
RECURSIVE FracDigits(_, _)
FracDigits(r, d) ==
  IF r = 0 THEN <<>>
  ELSE <<DigitChar((r * 10) \div d)>> \o FracDigits((r * 10) % d, d)

\* repr of x = n/d for 0 < x < 0.0001: the digits after the zeros, a dot after
\* the first of them, and the exponent with two digits at least
ExponentForm(n, d) ==
  LET digits == FracDigits(n, d)
      zeros == SetMin({i \in 1..Len(digits) : digits[i] # "0"}) - 1
      sig == SubSeq(digits, zeros + 1, Len(digits))
  IN <<sig[1]>> \o (IF Len(sig) > 1 THEN <<".">> \o Tail(sig) ELSE <<>>)
       \o <<"e", "-">> \o (IF zeros + 1 < 10 THEN <<"0">> ELSE <<>>) \o IntToStr(zeros + 1)

\* str(v) of a float that is the double nearest to a decimal of less than 16
\* digits below 10^16: 0.6, 100.0, 2.346, -1000.0, 1e-05, inf, nan, -0.0
FloatToStr(v) ==
  CASE v[1] = "inf" -> IF v[2] < 0 THEN <<"-">> \o LitInf ELSE LitInf
    [] v[1] = "nan" -> LitNan
    [] v[1] = "negzero" -> <<"-", "0", ".", "0">>
    [] v[1] = "float" /\ Off(v) = 0 ->
       LET n == Abs(Num(v))
           frac == FracDigits(n % Den(v), Den(v))
           sign == IF Num(v) < 0 THEN <<"-">> ELSE <<>>
       IN IF n # 0 /\ n <= (Den(v) - 1) \div 10000 THEN sign \o ExponentForm(n, Den(v))
          ELSE sign \o IntToStr(n \div Den(v)) \o <<".">>
                 \o (IF frac = <<>> THEN <<"0">> ELSE frac)

\* the text csv writes for a value
CellText(v) ==
  CASE v = Empty -> <<>>
    [] IsInt(v) -> IntToStr(Num(v))
    [] IsFloat(v) -> FloatToStr(v)
    [] OTHER -> v[2]

\* a line of the file is the sequence of its cells
HeaderLine == [i \in 1..Len(FEATURE_COLUMNS) |-> ColumnName(FEATURE_COLUMNS[i])]

\* a variant that writes every falsy value empty
CsvLineOfTruthy(row) ==
  [i \in 1..Len(FEATURE_COLUMNS) |->
     IF FEATURE_COLUMNS[i] \in DOMAIN row /\ row[FEATURE_COLUMNS[i]] # None
        /\ Truthy(row[FEATURE_COLUMNS[i]])
     THEN CellText(row[FEATURE_COLUMNS[i]]) ELSE <<>>]

\* csv_row of write_csv: a column the row lacks, '' and None are written empty
CsvLine(row) ==
  [i \in 1..Len(FEATURE_COLUMNS) |->
     IF FEATURE_COLUMNS[i] \in DOMAIN row /\ row[FEATURE_COLUMNS[i]] # None
     THEN CellText(row[FEATURE_COLUMNS[i]]) ELSE <<>>]

CsvLines(data) == [i \in 1..Len(data) |-> CsvLine(data[i])]

\* a file is absent or holds lines
NoFile == [exists |-> FALSE, lines |-> <<>>]

\* a variant that opens the file with mode 'w' whatever append says
write_csv_truncating(data, output_file, append) ==
  [exists |-> TRUE, lines |-> <<HeaderLine>> \o CsvLines(data)]

\* a variant that writes the header in either mode
write_csv_with_header(data, output_file, append) ==
  IF append /\ output_file.exists
  THEN [exists |-> TRUE, lines |-> output_file.lines \o <<HeaderLine>> \o CsvLines(data)]
  ELSE [exists |-> TRUE, lines |-> <<HeaderLine>> \o CsvLines(data)]

\* mode = 'a' if append and file_exists else 'w'; the header goes with mode 'w'
write_csv(data, output_file, append) ==
  IF append /\ output_file.exists
  THEN [exists |-> TRUE, lines |-> output_file.lines \o CsvLines(data)]
  ELSE [exists |-> TRUE, lines |-> <<HeaderLine>> \o CsvLines(data)]

(***************************************************************************)
(* The texts the probes return in the model                                *)
(***************************************************************************)
\* "10.0.0.1"
HostA ==
  <<"1","0",".","0",".","0",".","1">>
\* "10.0.0.10"
HostB ==
  <<"1","0",".","0",".","0",".","1","0">>
\* "10.0.0.01"
HostC ==
  <<"1","0",".","0",".","0",".","0","1">>
\* "10.0.0.1=0"
LabelArgA ==
  <<"1","0",".","0",".","0",".","1","=","0">>
\* " 10.0.0.1 = 2 ,10.0.0.10=1,junk"
LabelArgAB ==
  <<" ","1","0",".","0",".","0",".","1"," ","="," ","2"," ",",","1","0",".","0",".","0",".","1",
    "0","=","1",",","j","u","n","k">>
\* "10.0.0.1=-1,10.0.0.10=+1_0"
LabelArgNeg ==
  <<"1","0",".","0",".","0",".","1","=","-","1",",","1","0",".","0",".","0",".","1","0","=",
    "+","1","_","0">>
\* "10.0.0.1=3", with U+001F before and U+000B, U+0085 after the key and
\* U+001C, U+00A0 before and U+001D after the label
LabelArgSep ==
  <<UnitSep>> \o HostA \o <<VerticalTab, NextLine, "=", FileSep, NoBreakSpace, "3", GroupSep>>
\* "10.0.0.1=0,10.0.0.10=1.5"
LabelArgBad ==
  <<"1","0",".","0",".","0",".","1","=","0",",","1","0",".","0",".","0",".","1","0","=","1",
    ".","5">>
\* "64 bytes from h: icmp_seq=1 ttl=64 time=0.5 ms"
PingReplyLine ==
  <<"6","4"," ","b","y","t","e","s"," ","f","r","o","m"," ","h",":"," ","i","c","m","p","_","s",
    "e","q","=","1"," ","t","t","l","=","6","4"," ","t","i","m","e","=","0",".","5"," ","m","s">>
\* "5 packets transmitted, 5 received, 0% packet loss"
PingStats0 ==
  <<"5"," ","p","a","c","k","e","t","s"," ","t","r","a","n","s","m","i","t","t","e","d",","," ",
    "5"," ","r","e","c","e","i","v","e","d",","," ","0","%"," ","p","a","c","k","e","t"," ","l",
    "o","s","s">>
\* "5 packets transmitted, 4 received, 20% packet loss"
PingStats20 ==
  <<"5"," ","p","a","c","k","e","t","s"," ","t","r","a","n","s","m","i","t","t","e","d",","," ",
    "4"," ","r","e","c","e","i","v","e","d",","," ","2","0","%"," ","p","a","c","k","e","t"," ",
    "l","o","s","s">>
\* "5 packets transmitted, 0 received, 100% packet loss"
PingStats100 ==
  <<"5"," ","p","a","c","k","e","t","s"," ","t","r","a","n","s","m","i","t","t","e","d",","," ",
    "0"," ","r","e","c","e","i","v","e","d",","," ","1","0","0","%"," ","p","a","c","k","e","t",
    " ","l","o","s","s">>
\* "rtt min/avg/max/mdev = 1.0/2.3456/3.0/0.5 ms"
PingRttLine ==
  <<"r","t","t"," ","m","i","n","/","a","v","g","/","m","a","x","/","m","d","e","v"," ","="," ",
    "1",".","0","/","2",".","3","4","5","6","/","3",".","0","/","0",".","5"," ","m","s">>
\* "rtt min/avg/max/mdev = 1.0/2..5/3.0/0.5 ms"
PingBadRttLine ==
  <<"r","t","t"," ","m","i","n","/","a","v","g","/","m","a","x","/","m","d","e","v"," ","="," ",
    "1",".","0","/","2",".",".","5","/","3",".","0","/","0",".","5"," ","m","s">>
\* "ping: h: Name or service not known"
PingErrorLine ==
  <<"p","i","n","g",":"," ","h",":"," ","N","a","m","e"," ","o","r"," ","s","e","r","v","i","c",
    "e"," ","n","o","t"," ","k","n","o","w","n">>
\* "64 bytes from h: icmp_seq=1 ttl="
TtlUnixHead ==
  <<"6","4"," ","b","y","t","e","s"," ","f","r","o","m"," ","h",":"," ","i","c","m","p","_","s",
    "e","q","=","1"," ","t","t","l","=">>
\* " time=0.5 ms"
TtlUnixTail ==
  <<" ","t","i","m","e","=","0",".","5"," ","m","s">>
\* "Reply from h: bytes=32 time<1ms TTL="
TtlWinHead ==
  <<"R","e","p","l","y"," ","f","r","o","m"," ","h",":"," ","b","y","t","e","s","=","3","2"," ",
    "t","i","m","e","<","1","m","s"," ","T","T","L","=">>
\* "From g: Time to live exceeded, ttl="
TtlExceededHead ==
  <<"F","r","o","m"," ","g",":"," ","T","i","m","e"," ","t","o"," ","l","i","v","e"," ","e","x",
    "c","e","e","d","e","d",","," ","t","t","l","=">>
\* "64 bytes from h: icmp_seq=2 ttl=63"
TtlSecondLine ==
  <<"6","4"," ","b","y","t","e","s"," ","f","r","o","m"," ","h",":"," ","i","c","m","p","_","s",
    "e","q","=","2"," ","t","t","l","=","6","3">>
\* "len=46 ip=h ttl=64 flags=SA seq=0 win=5840 rtt=0.5 ms"
HpingFullSA ==
  <<"l","e","n","=","4","6"," ","i","p","=","h"," ","t","t","l","=","6","4"," ","f","l","a","g",
    "s","=","S","A"," ","s","e","q","=","0"," ","w","i","n","=","5","8","4","0"," ","r","t","t",
    "=","0",".","5"," ","m","s">>
\* "len=40 ip=h ttl=64 flags=RA seq=0 win=0 rtt=0.4 ms"
HpingFullRA ==
  <<"l","e","n","=","4","0"," ","i","p","=","h"," ","t","t","l","=","6","4"," ","f","l","a","g",
    "s","=","R","A"," ","s","e","q","=","0"," ","w","i","n","=","0"," ","r","t","t","=","0",".",
    "4"," ","m","s">>
\* "flags=SA"
HpingFlagsSA ==
  <<"f","l","a","g","s","=","S","A">>
\* "len=46 ip=h"
HpingLenOnly ==
  <<"l","e","n","=","4","6"," ","i","p","=","h">>
\* "46 bytes from h"
HpingBytesFrom ==
  <<"4","6"," ","b","y","t","e","s"," ","f","r","o","m"," ","h">>
\* "HPING h (eth0 h): S set, 40 headers + 0 data bytes"
HpingBanner ==
  <<"H","P","I","N","G"," ","h"," ","(","e","t","h","0"," ","h",")",":"," ","S"," ","s","e","t",
    ","," ","4","0"," ","h","e","a","d","e","r","s"," ","+"," ","0"," ","d","a","t","a"," ","b",
    "y","t","e","s">>
\* "80/tcp filtered http"
NmapFiltered80 ==
  <<"8","0","/","t","c","p"," ","f","i","l","t","e","r","e","d"," ","h","t","t","p">>
\* "443/tcp filtered https"
NmapFiltered443 ==
  <<"4","4","3","/","t","c","p"," ","f","i","l","t","e","r","e","d"," ","h","t","t","p","s">>
\* "22/tcp open ssh"
NmapOpen22 ==
  <<"2","2","/","t","c","p"," ","o","p","e","n"," ","s","s","h">>
\* "Nmap done: 1 IP address (1 host up) scanned in 12.346 seconds"
NmapDone ==
  <<"N","m","a","p"," ","d","o","n","e",":"," ","1"," ","I","P"," ","a","d","d","r","e","s","s",
    " ","(","1"," ","h","o","s","t"," ","u","p",")"," ","s","c","a","n","n","e","d"," ","i","n",
    " ","1","2",".","3","4","6"," ","s","e","c","o","n","d","s">>
\* "0.1234567"
CurlTimeText ==
  <<"0",".","1","2","3","4","5","6","7">>
\* "1e-3"
CurlTimeExp ==
  <<"1","e","-","3">>
\* "HTTP/1.1 200 OK\nServer: nginx"
HeadersPlain ==
  <<"H","T","T","P","/","1",".","1"," ","2","0","0"," ","O","K","\n","S","e","r","v","e","r",
    ":"," ","n","g","i","n","x">>
\* "HTTP/1.1 200 OK\nVia: 1.1 proxy"
HeadersVia ==
  <<"H","T","T","P","/","1",".","1"," ","2","0","0"," ","O","K","\n","V","i","a",":"," ","1",
    ".","1"," ","p","r","o","x","y">>
\* "HTTP/1.1 200 OK\nX-Squid-Error: 0"
ProxySquidText ==
  <<"H","T","T","P","/","1",".","1"," ","2","0","0"," ","O","K","\n","X","-","S","q","u","i",
    "d","-","E","r","r","o","r",":"," ","0">>

\* '\n'.join(lines)
RECURSIVE JoinLines(_)
JoinLines(lines) ==
  IF lines = <<>> THEN <<>>
  ELSE IF Len(lines) = 1 THEN lines[1]
  ELSE lines[1] \o <<"\n">> \o JoinLines(Tail(lines))

\* ping: a host that answers, with no loss and with loss; a host that does not
\* answer; a name that does not resolve; a summary line that is no number
PingReply0 == JoinLines(<<PingReplyLine, PingStats0, PingRttLine>>)
PingReply20 == JoinLines(<<PingReplyLine, PingStats20, PingRttLine>>)
PingDark == PingStats100
PingLateReply == JoinLines(<<PingReplyLine, PingStats0>>)
PingBadRtt == JoinLines(<<PingReplyLine, PingStats0, PingBadRttLine>>)

NmapText == JoinLines(<<NmapFiltered80, NmapOpen22, NmapFiltered443, NmapDone>>)

(***************************************************************************)
(* Bounds of the model                                                     *)
(***************************************************************************)
\* hosts in the target list
MaxHosts == 3
\* the largest --parallel
MaxParallel == 2
\* the largest --repeat
MaxRepeat == 2
\* the most calls of collect_features in one run: targets times repeat
MaxRuns == 4
\* int(time.time()) when the run starts
StartTime == 100
\* the seconds that pass while the probes of a run wait, all in all, at most
MaxElapsed == 1
\* seconds main sleeps between two iterations
IterationPause == 2

\* the target list of n hosts: an address, the same address written with a
\* leading zero, an address the first is a prefix of, then the first again
TargetPool == <<HostA, HostC, HostB>>
TargetList(n) == [i \in 1..n |-> TargetPool[((i - 1) % Len(TargetPool)) + 1]]
\* a list that names one host twice
RepeatedList == <<HostA, HostA>>
TargetLists == {TargetList(n) : n \in 1..MaxHosts} \cup {RepeatedList}

\* sep.join(items)
RECURSIVE Join(_, _)
Join(sep, items) ==
  IF items = <<>> THEN <<>>
  ELSE IF Len(items) = 1 THEN items[1]
  ELSE items[1] \o sep \o Join(sep, Tail(items))

\* what --targets-file can name: no file, an empty file, a file of blank
\* lines, a file with one host, whitespace around it, between blank lines
TargetsFiles ==
  {[given |-> TRUE, exists |-> FALSE, lines |-> <<>>],
   [given |-> TRUE, exists |-> TRUE, lines |-> <<>>],
   [given |-> TRUE, exists |-> TRUE, lines |-> <<<<" ">>, <<>>>>],
   [given |-> TRUE, exists |-> TRUE,
    lines |-> <<<<UnitSep>>, <<VerticalTab, NoBreakSpace>> \o HostA \o <<"\t", NextLine>>, <<>>>>]}

\* the command lines of a run: --targets with a list, its entries set apart by
\* a comma and a blank; --targets-file; neither
CommandLines ==
  {[targets |-> Join(<<",", " ">>, ts), targets_file |-> NoTargetsFile] : ts \in TargetLists}
  \cup {[targets |-> None, targets_file |-> tf] : tf \in TargetsFiles \cup {NoTargetsFile}}

\* the tools shutil.which finds: all of them, all but hping3, curl alone
ToolSets == {{"ping", "nmap", "curl", "hping3"}, {"ping", "nmap", "curl"}, {"curl"}}

\* values of --label-map
LabelArgs == {<<>>, LabelArgA, LabelArgAB, LabelArgNeg, LabelArgSep, LabelArgBad}

\* a row a former run left in the output file
OldRow == [c \in Columns |-> IF c = "host" THEN PyStr(HostB) ELSE Empty]
InitialFiles == {NoFile, [exists |-> TRUE, lines |-> <<HeaderLine, CsvLine(OldRow)>>]}

\* what run_command returns per probe: None, or the text of the process.
\* BatchInputs keeps the probes of a batch to a host that is dark and a host
\* whose ping summary makes float() raise; HostInputs varies every probe.
BatchInputs ==
  [ping |-> {None, PingBadRtt}, ping_large |-> {None}, nmap |-> {None},
   syn |-> {None}, rst |-> {None}, curl_time |-> {None}, headers |-> {None},
   proxy |-> {None}]

HostInputs ==
  [ping |-> {None, PingReply0, PingReply20, PingDark, PingErrorLine, PingBadRtt},
   ping_large |-> {None, <<>>, PingReply0, PingReply20, PingDark, PingLateReply},
   nmap |-> {None, NmapText},
   syn |-> {None, JoinLines(<<HpingFullSA, HpingFullSA, HpingFullSA>>)},
   rst |-> {None, JoinLines(<<HpingBanner, HpingFullRA>>)},
   curl_time |-> {None, CurlTimeText, CurlTimeExp, LitNan},
   headers |-> {None, HeadersPlain, HeadersVia},
   proxy |-> {None, HeadersPlain, ProxySquidText}]

(***************************************************************************)
(* State                                                                   *)
(***************************************************************************)
VARIABLES
  args,             \* the parsed command line: targets, targets_file, parallel,
                    \* repeat, label_map
  targets,          \* the target list of main
  LABEL_MAP,        \* the global label mapping
  pc,               \* where main is
  iteration,        \* the loop variable of main
  all_features,     \* the rows of the current iteration
  total_collected,
  task,             \* per target of the current iteration, its collect_features call
  pool,             \* the executor and as_completed: submitted, finished, yielded
  file,             \* the file at args.output
  log,              \* the error lines main printed
  clock,            \* time.time()
  call              \* a direct call of a parser: its arguments and its result

vars == <<args, targets, LABEL_MAP, pc, iteration, all_features, total_collected, task, pool,
          file, log, clock, call>>
mainVars == <<args, targets, LABEL_MAP, pc, iteration, all_features, total_collected, task, pool,
              file, log, clock>>

Tasks == 1..Len(task)

IdleTask == [status |-> "idle", pc |-> "ping", port |-> 1, features |-> None, ran |-> <<>>]
FreshPool == [submitted |-> 0, initial |-> {}, order |-> <<>>, yielded |-> {}]
NoCall == [fn |-> "none", shape |-> <<>>, output |-> None, sent |-> 0, result |-> None]

Finished(i) == task[i].status \in {"returned", "raised"}
Running == {i \in Tasks : task[i].status = "running"}
\* the calls a worker thread holds: taken off the queue, begun or not
Held == {i \in Tasks : task[i].status \in {"taken", "running"}}

\* main after parse_args, with the file f at args.output
InitWith(a, f) ==
  /\ args = a
  /\ targets = <<>>
  /\ LABEL_MAP = <<>>
  /\ pc = "start"
  /\ iteration = 0
  /\ all_features = <<>>
  /\ total_collected = 0
  /\ task = <<>>
  /\ pool = FreshPool
  /\ file = f
  /\ log = <<>>
  /\ clock = StartTime
  /\ call = NoCall

Init ==
  \E cl \in CommandLines, par \in 0..MaxParallel, rep \in 0..MaxRepeat, f \in InitialFiles,
     lm \in {LabelArgAB, LabelArgBad} :
    /\ Len(ParseTargets(cl).targets) * rep <= MaxRuns
    /\ InitWith([targets |-> cl.targets, targets_file |-> cl.targets_file,
                 parallel |-> par, repeat |-> rep, label_map |-> lm], f)

(***************************************************************************)
(* collect_features, one step per probe                                    *)
(***************************************************************************)
Ran(cmd, port, output) == [cmd |-> cmd, port |-> port, output |-> output]

\* the call of task i ends: its future is done, or the sequential call returns
EndTask(i, status, features, ran) ==
  /\ task' = [task EXCEPT ![i].status = status, ![i].pc = "done",
                          ![i].features = features, ![i].ran = Append(@, ran)]
  /\ pool' = [pool EXCEPT !.order = Append(@, i)]

\* task i goes on to the probe next with the row r.value, or ends by the
\* exception r stands for
StepTask(i, r, next, ran) ==
  IF r.raised THEN EndTask(i, "raised", task[i].features, ran)
  ELSE /\ task' = [task EXCEPT ![i].pc = next, ![i].features = r.value,
                               ![i].ran = Append(@, ran)]
       /\ pool' = pool

AtProbe(i, p) == task[i].status = "running" /\ task[i].pc = p

TaskFrame == UNCHANGED <<args, targets, LABEL_MAP, pc, iteration, all_features, total_collected,
                         file, log, clock, call>>

\* the seconds the probes of the run have taken so far
Elapsed == clock - StartTime - IterationPause * iteration

\* a second passes while a call waits in run_command for its probe to end;
\* the other threads go on meanwhile
Tick ==
  /\ \E i \in Tasks : task[i].status = "running" /\ task[i].pc # "finish"
  /\ Elapsed < MaxElapsed
  /\ clock' = clock + 1
  /\ UNCHANGED <<args, targets, LABEL_MAP, pc, iteration, all_features, total_collected, task,
                 pool, file, log, call>>

Ping(i, In) ==
  /\ AtProbe(i, "ping")
  /\ \E out \in In.ping :
       StepTask(i, StepPing(task[i].features, out), "ping_large", Ran("ping", 0, out))
  /\ TaskFrame

PingLarge(i, In) ==
  /\ AtProbe(i, "ping_large")
  /\ \E out \in In.ping_large :
       StepTask(i, StepPingLarge(task[i].features, out), "nmap", Ran("ping_large", 0, out))
  /\ TaskFrame

Nmap(i, In) ==
  /\ AtProbe(i, "nmap")
  /\ \E out \in In.nmap :
       StepTask(i, StepNmap(task[i].features, out), "hping3_80", Ran("nmap", 0, out))
  /\ TaskFrame

Syn(i, In) ==
  /\ AtProbe(i, "hping3_80")
  /\ \E out \in In.syn :
       StepTask(i, StepSyn(task[i].features, out), "hping3_22", Ran("hping3", 80, out))
  /\ TaskFrame

Rst(i, In) ==
  /\ AtProbe(i, "hping3_22")
  /\ \E out \in In.rst :
       StepTask(i, StepRst(task[i].features, out), "curl_time", Ran("hping3", 22, out))
  /\ TaskFrame

CurlTime(i, In) ==
  /\ AtProbe(i, "curl_time")
  /\ \E out \in In.curl_time :
       StepTask(i, StepCurlTime(task[i].features, out), "curl_headers",
                Ran("curl_time", 0, out))
  /\ TaskFrame

\* the sweep follows only when the header probe left header_modified at 0
Headers(i, In) ==
  /\ AtProbe(i, "curl_headers")
  /\ \E out \in In.headers :
       LET r == StepHeaders(task[i].features, out)
       IN StepTask(i, r, IF r.value.header_modified = PyInt(0) THEN "curl_proxy" ELSE "finish",
                   Ran("curl_headers", 0, out))
  /\ TaskFrame

\* a variant of the sweep without the break
ProxyNoBreak(i, In) ==
  /\ AtProbe(i, "curl_proxy")
  /\ \E out \in In.proxy :
       LET ran == Ran("curl_proxy", proxy_ports[task[i].port], out)
           f == IF ProxyDetected(out)
                THEN [task[i].features EXCEPT !.header_modified = PyInt(1)]
                ELSE task[i].features
       IN IF task[i].port < Len(proxy_ports)
          THEN /\ task' = [task EXCEPT ![i].port = @ + 1, ![i].features = f,
                                       ![i].ran = Append(@, ran)]
               /\ pool' = pool
          ELSE StepTask(i, Return(f), "finish", ran)
  /\ TaskFrame

\* one round of the loop over proxy_ports: a detection breaks out of it
Proxy(i, In) ==
  /\ AtProbe(i, "curl_proxy")
  /\ \E out \in In.proxy :
       LET ran == Ran("curl_proxy", proxy_ports[task[i].port], out)
       IN IF ProxyDetected(out)
          THEN StepTask(i, Return([task[i].features EXCEPT !.header_modified = PyInt(1)]),
                        "finish", ran)
          ELSE IF task[i].port < Len(proxy_ports)
          THEN /\ task' = [task EXCEPT ![i].port = @ + 1, ![i].ran = Append(@, ran)]
               /\ pool' = pool
          ELSE StepTask(i, Return(task[i].features), "finish", ran)
  /\ TaskFrame

\* rounding, label, return
Finish(i) ==
  /\ AtProbe(i, "finish")
  /\ task' = [task EXCEPT ![i].status = "returned", ![i].pc = "done",
                          ![i].features =
                            ApplyLabel(RoundFields(@), targets[i], LABEL_MAP)]
  /\ pool' = [pool EXCEPT !.order = Append(@, i)]
  /\ TaskFrame

(***************************************************************************)
(* main                                                                    *)
(***************************************************************************)
\* the call of collect_features(ip) starts: the row is initialised
Started(i) ==
  [IdleTask EXCEPT !.status = "running",
                   !.features = InitFeatures(targets[i], clock)]

\* main from "Parse label mapping" to check_required_tools(): a label int()
\* does not take ends it by a ValueError, a target list that cannot be had or
\* is empty by sys.exit(1), a missing tool by sys.exit(1) in
\* check_required_tools; otherwise the loop is reached
Startup ==
  /\ pc = "start"
  /\ \E installed \in ToolSets :
       LET lm == ParseLabelMap(args.label_map)
           ts == ParseTargets(args)
           quit(msg, what, found) ==
             /\ pc' = "exit1_setup"
             /\ log' = Append(log, [msg |-> msg, host |-> what])
             /\ LABEL_MAP' = lm.value
             /\ targets' = found
             /\ UNCHANGED task
       IN IF lm.raised
          THEN /\ pc' = "raised"
               /\ log' = Append(log, [msg |-> "ValueError", host |-> args.label_map])
               /\ UNCHANGED <<LABEL_MAP, targets, task>>
          ELSE IF ts.exit # "" THEN quit(ts.exit, <<>>, ts.targets)
          ELSE IF missing_tools(installed) # <<>>
          THEN quit("Missing required tools", missing_tools(installed), ts.targets)
          ELSE /\ pc' = "loop"
               /\ LABEL_MAP' = lm.value
               /\ targets' = ts.targets
               /\ task' = [i \in 1..Len(ts.targets) |-> IdleTask]
               /\ log' = log
  /\ UNCHANGED <<args, iteration, all_features, total_collected, pool, file, clock, call>>

\* the top of the loop over range(args.repeat)
IterationStart ==
  /\ pc = "loop"
  /\ iteration < args.repeat
  /\ all_features' = <<>>
  /\ task' = [i \in Tasks |-> IdleTask]
  /\ pool' = FreshPool
  /\ pc' = IF args.parallel > 1 THEN "submit" ELSE "sequential"
  /\ UNCHANGED <<args, targets, LABEL_MAP, iteration, total_collected, file, log, clock, call>>

\* executor.submit(collect_features, ip, args.debug), target by target
Submit ==
  /\ pc = "submit"
  /\ pool.submitted < Len(targets)
  /\ task' = [task EXCEPT ![pool.submitted + 1].status = "queued"]
  /\ pool' = [pool EXCEPT !.submitted = @ + 1]
  /\ UNCHANGED <<args, targets, LABEL_MAP, pc, iteration, all_features, total_collected, file,
                 log, clock, call>>

\* a variant of the pool in which a thread is there for every queued call
WorkerTakeUnbounded(i) ==
  /\ task[i].status = "queued"
  /\ \A j \in 1..(i - 1) : task[j].status # "queued"
  /\ task' = [task EXCEPT ![i].status = "taken"]
  /\ UNCHANGED <<args, targets, LABEL_MAP, pc, iteration, all_features, total_collected, pool,
                 file, log, clock, call>>

\* a worker thread takes the oldest call off the queue; the pool has
\* args.parallel threads, each holding one call at a time
WorkerTake(i) ==
  /\ task[i].status = "queued"
  /\ \A j \in 1..(i - 1) : task[j].status # "queued"
  /\ Cardinality(Held) < args.parallel
  /\ task' = [task EXCEPT ![i].status = "taken"]
  /\ UNCHANGED <<args, targets, LABEL_MAP, pc, iteration, all_features, total_collected, pool,
                 file, log, clock, call>>

\* the thread that took call i calls collect_features, whatever the other
\* threads have done in between
WorkerStart(i) ==
  /\ task[i].status = "taken"
  /\ task' = [task EXCEPT ![i] = Started(i)]
  /\ UNCHANGED <<args, targets, LABEL_MAP, pc, iteration, all_features, total_collected, pool,
                 file, log, clock, call>>

\* as_completed(futures) is entered once every target is submitted: the
\* futures done by then are yielded first
EnterAsCompleted ==
  /\ pc = "submit"
  /\ pool.submitted = Len(targets)
  /\ pc' = "as_completed"
  /\ pool' = [pool EXCEPT !.initial = {i \in Tasks : Finished(i)}]
  /\ UNCHANGED <<args, targets, LABEL_MAP, iteration, all_features, total_collected, task, file,
                 log, clock, call>>

\* a variant of as_completed that yields any future that is done
NextYieldAny == {i \in Tasks : Finished(i)} \ pool.yielded

\* the futures as_completed can yield next: any of those done at its entry,
\* then the others in the order they are done
NextYield ==
  LET later == SelectSeq(pool.order, LAMBDA i : i \notin pool.initial \cup pool.yielded)
  IN IF pool.initial \ pool.yielded # {} THEN pool.initial \ pool.yielded
     ELSE IF later = <<>> THEN {} ELSE {later[1]}

\* a variant that keeps what a failed call had gathered
CollectAlsoFailed(i) ==
  /\ all_features' = Append(all_features, task[i].features)
  /\ log' = IF task[i].status = "raised"
            THEN Append(log, [msg |-> "Error collecting from", host |-> targets[i]])
            ELSE log

\* try: all_features.append(result)  except Exception: print the error
Collect(i) ==
  /\ all_features' = IF task[i].status = "returned"
                     THEN Append(all_features, task[i].features) ELSE all_features
  /\ log' = IF task[i].status = "raised"
            THEN Append(log, [msg |-> "Error collecting from", host |-> targets[i]])
            ELSE log

Yield ==
  /\ pc = "as_completed"
  /\ \E i \in NextYield :
       /\ Collect(i)
       /\ pool' = [pool EXCEPT !.yielded = @ \cup {i}]
  /\ UNCHANGED <<args, targets, LABEL_MAP, pc, iteration, total_collected, task, file, clock, call>>

\* the sequential loop calls collect_features for the next target
SeqCall ==
  /\ pc = "sequential"
  /\ pool.submitted < Len(targets)
  /\ task' = [task EXCEPT ![pool.submitted + 1] = Started(pool.submitted + 1)]
  /\ pc' = "in_call"
  /\ UNCHANGED <<args, targets, LABEL_MAP, iteration, all_features, total_collected, pool, file,
                 log, clock, call>>

\* and appends its row, or prints its error
SeqReturn ==
  /\ pc = "in_call"
  /\ Finished(pool.submitted + 1)
  /\ Collect(pool.submitted + 1)
  /\ pool' = [pool EXCEPT !.submitted = @ + 1, !.yielded = @ \cup {pool.submitted + 1}]
  /\ pc' = "sequential"
  /\ UNCHANGED <<args, targets, LABEL_MAP, iteration, total_collected, task, file, clock, call>>

\* every target of the iteration is dealt with
BatchOver ==
  \/ pc = "sequential" /\ pool.submitted = Len(targets)
  \/ pc = "as_completed" /\ pool.yielded = Tasks

\* a variant that calls write_csv also for an empty batch
WriteResultsAlways ==
  /\ BatchOver
  /\ file' = write_csv(all_features, file, iteration > 0)
  /\ total_collected' = total_collected + Len(all_features)
  /\ log' = IF all_features # <<>> THEN log
            ELSE Append(log, [msg |-> "No data collected", host |-> <<>>])
  /\ clock' = IF iteration < args.repeat - 1 THEN clock + IterationPause ELSE clock
  /\ iteration' = iteration + 1
  /\ pc' = "loop"
  /\ UNCHANGED <<args, targets, LABEL_MAP, all_features, task, pool, call>>

\* "Write results" and the pause before the next iteration
WriteResults ==
  /\ BatchOver
  /\ file' = IF all_features # <<>> THEN write_csv(all_features, file, iteration > 0)
             ELSE file
  /\ total_collected' = total_collected + Len(all_features)
  /\ log' = IF all_features # <<>> THEN log
            ELSE Append(log, [msg |-> "No data collected", host |-> <<>>])
  /\ clock' = IF iteration < args.repeat - 1 THEN clock + IterationPause ELSE clock
  /\ iteration' = iteration + 1
  /\ pc' = "loop"
  /\ UNCHANGED <<args, targets, LABEL_MAP, all_features, task, pool, call>>

\* "Final summary": sys.exit(1) when nothing was collected
Summary ==
  /\ pc = "loop"
  /\ iteration >= args.repeat
  /\ pc' = IF total_collected > 0 THEN "done" ELSE "exit1"
  /\ log' = IF total_collected > 0 THEN log
            ELSE Append(log, [msg |-> "No data collected", host |-> <<>>])
  /\ UNCHANGED <<args, targets, LABEL_MAP, iteration, all_features, total_collected, task, pool,
                 file, clock, call>>

\* the probes of the running calls of collect_features
TaskNext(In) ==
  \/ \E i \in Tasks : Ping(i, In)
  \/ \E i \in Tasks : PingLarge(i, In)
  \/ \E i \in Tasks : Nmap(i, In)
  \/ \E i \in Tasks : Syn(i, In)
  \/ \E i \in Tasks : Rst(i, In)
  \/ \E i \in Tasks : CurlTime(i, In)
  \/ \E i \in Tasks : Headers(i, In)
  \/ \E i \in Tasks : Proxy(i, In)
  \/ \E i \in Tasks : Finish(i)

\* a run of main over a batch of hosts
Next ==
  \/ Startup
  \/ IterationStart
  \/ Submit
  \/ \E i \in Tasks : WorkerTake(i)
  \/ \E i \in Tasks : WorkerStart(i)
  \/ EnterAsCompleted
  \/ Yield
  \/ SeqCall
  \/ SeqReturn
  \/ TaskNext(BatchInputs)
  \/ Tick
  \/ WriteResults
  \/ Summary
Spec == Init /\ [][Next]_vars

\* a sequential run of main over one host, every probe of which can answer in
\* several ways
InitHost ==
  InitWith([targets |-> HostA, targets_file |-> NoTargetsFile,
            parallel |-> 1, repeat |-> 1, label_map |-> LabelArgA],
           NoFile)
NextHost ==
  \/ Startup
  \/ IterationStart
  \/ SeqCall
  \/ SeqReturn
  \/ TaskNext(HostInputs)
  \/ Tick
  \/ WriteResults
  \/ Summary
SpecHost == InitHost /\ [][NextHost]_vars

\* sequential runs over one host, for every host and every --label-map
InitLabel ==
  \E h \in {HostA, HostB, HostC}, lm \in LabelArgs :
    InitWith([targets |-> h, targets_file |-> NoTargetsFile, parallel |-> 1, repeat |-> 1,
              label_map |-> lm], NoFile)
NextLabel ==
  \/ Startup
  \/ IterationStart
  \/ SeqCall
  \/ SeqReturn
  \/ TaskNext(BatchInputs)
  \/ Tick
  \/ WriteResults
  \/ Summary
SpecLabel == InitLabel /\ [][NextLabel]_vars

(***************************************************************************)
(* Direct calls of the parsers                                             *)
(***************************************************************************)
\* lines of an hping3 probe text
MaxLines == 3
\* the largest sent_count
MaxSent == 5
\* the largest TTL
MaxTtl == 255

\* the lines hping3 can print: a reply with all its fields (SYN/ACK, RST/ACK),
\* a reply cut down to its flags or to its length, a byte-count reply, the banner
HpingKinds == {"full_sa", "full_ra", "flags_sa", "len_only", "bytes_from", "banner"}

HpingLine(kind) ==
  CASE kind = "full_sa" -> HpingFullSA [] kind = "full_ra" -> HpingFullRA
    [] kind = "flags_sa" -> HpingFlagsSA [] kind = "len_only" -> HpingLenOnly
    [] kind = "bytes_from" -> HpingBytesFrom [] OTHER -> HpingBanner

\* a probe text is described by the kinds of its lines; <<"absent">> is None
HpingShapes ==
  {<<"absent">>} \cup UNION {[1..n -> HpingKinds] : n \in 0..MaxLines}

HpingText(shape) ==
  IF shape = <<"absent">> THEN None
  ELSE JoinLines([i \in 1..Len(shape) |-> HpingLine(shape[i])])

\* ping texts that contain the marker ttl=N: a reply of a Unix ping, the same
\* followed by a second reply with another TTL, a reply of a Windows ping
\* (bytes=32 ... TTL=N) and an ICMP error, neither of which shows a reply marker
\* a reply line alone, two reply lines, a reply line with the summary of an
\* average float() takes and of one it does not take, and two lines that have
\* ttl= and no reply marker
TtlKinds == {"unix", "unix_two", "unix_rtt", "unix_bad_rtt", "windows", "exceeded"}

TtlText(kind, n) ==
  CASE kind = "unix" -> TtlUnixHead \o IntToStr(n) \o TtlUnixTail
    [] kind = "unix_two" ->
         JoinLines(<<TtlUnixHead \o IntToStr(n) \o TtlUnixTail, TtlSecondLine>>)
    [] kind = "unix_rtt" ->
         JoinLines(<<TtlUnixHead \o IntToStr(n) \o TtlUnixTail, PingStats0, PingRttLine>>)
    [] kind = "unix_bad_rtt" ->
         JoinLines(<<TtlUnixHead \o IntToStr(n) \o TtlUnixTail, PingStats0, PingBadRttLine>>)
    [] kind = "windows" -> TtlWinHead \o IntToStr(n)
    [] OTHER -> TtlExceededHead \o IntToStr(n)

\* one call per behaviour, made on the initial state
Called(fn, shape, output, sent, result) ==
  /\ call = NoCall
  /\ call' = [fn |-> fn, shape |-> shape, output |-> output, sent |-> sent,
              result |-> result]
  /\ UNCHANGED mainVars

CallParseHping3 ==
  \E shape \in HpingShapes, n \in 0..MaxSent :
    Called("parse_hping3", shape, HpingText(shape), n, parse_hping3(HpingText(shape), n))

CallParseHping3Rst ==
  \E shape \in HpingShapes, n \in 0..MaxSent :
    Called("parse_hping3_rst", shape, HpingText(shape), n,
           parse_hping3_rst(HpingText(shape), n))

CallParsePing ==
  \E kind \in TtlKinds, n \in 1..MaxTtl :
    Called("parse_ping", <<kind>>, TtlText(kind, n), n, parse_ping(TtlText(kind, n)))

\* the row after the two SYN tests of collect_features and its rounding, both
\* probes returning the same text
L4Ratios(output) ==
  RoundFields(StepRst(StepSyn(InitFeatures(HostA, StartTime), output).value, output).value)

CallL4Ratios ==
  \E shape \in HpingShapes :
    Called("l4_ratios", shape, HpingText(shape), SentCount, L4Ratios(HpingText(shape)))

\* "HTTP/1.1 200 OK"
StatusLine ==
  <<"H","T","T","P","/","1",".","1"," ","2","0","0"," ","O","K">>
\* "Server: nginx"
HeaderServer ==
  <<"S","e","r","v","e","r",":"," ","n","g","i","n","x">>
\* "Date: today"
HeaderDate ==
  <<"D","a","t","e",":"," ","t","o","d","a","y">>
\* "Via: 1.1 proxy"
HeaderViaLine ==
  <<"V","i","a",":"," ","1",".","1"," ","p","r","o","x","y">>
\* "VIA: 1.1 proxy"
HeaderViaUpper ==
  <<"V","I","A",":"," ","1",".","1"," ","p","r","o","x","y">>
\* "X-Cache: HIT"
HeaderXCache ==
  <<"X","-","C","a","c","h","e",":"," ","H","I","T">>
\* "X-Cache-Lookup: HIT"
HeaderXCacheLookup ==
  <<"X","-","C","a","c","h","e","-","L","o","o","k","u","p",":"," ","H","I","T">>
\* "X-Proxy-Id: 7"
HeaderXProxyId ==
  <<"X","-","P","r","o","x","y","-","I","d",":"," ","7">>
\* "Proxy-Agent: gw"
HeaderProxyAgent ==
  <<"P","r","o","x","y","-","A","g","e","n","t",":"," ","g","w">>
\* "Proxy-Agent-Name: gw"
HeaderProxyAgentName ==
  <<"P","r","o","x","y","-","A","g","e","n","t","-","N","a","m","e",":"," ","g","w">>
\* "X-Forwarded-For: 10.0.0.9"
HeaderXForwardedFor ==
  <<"X","-","F","o","r","w","a","r","d","e","d","-","F","o","r",":"," ","1","0",".","0",".","0",
    ".","9">>
\* "Server: Octavia"
HeaderServerOctavia ==
  <<"S","e","r","v","e","r",":"," ","O","c","t","a","v","i","a">>

\* header lines of an HTTP response: of no proxy, of a proxy by each name of
\* proxy_headers, and lines that hold such a name without its colon
HeaderKinds ==
  {"server", "date", "via", "via_upper", "x_cache", "x_cache_lookup", "x_proxy_id",
   "proxy_agent", "proxy_agent_name", "x_forwarded_for", "server_octavia"}

HeaderLineOf(kind) ==
  CASE kind = "server" -> HeaderServer [] kind = "date" -> HeaderDate
    [] kind = "via" -> HeaderViaLine [] kind = "via_upper" -> HeaderViaUpper
    [] kind = "x_cache" -> HeaderXCache [] kind = "x_cache_lookup" -> HeaderXCacheLookup
    [] kind = "x_proxy_id" -> HeaderXProxyId [] kind = "proxy_agent" -> HeaderProxyAgent
    [] kind = "proxy_agent_name" -> HeaderProxyAgentName
    [] kind = "x_forwarded_for" -> HeaderXForwardedFor
    [] OTHER -> HeaderServerOctavia

\* header lines after the status line
MaxHeaders == 2

\* <<"absent">> is None, <<"empty">> the empty text
HeaderShapes ==
  {<<"absent">>, <<"empty">>} \cup UNION {[1..n -> HeaderKinds] : n \in 0..MaxHeaders}

HeaderText(shape) ==
  IF shape = <<"absent">> THEN None
  ELSE IF shape = <<"empty">> THEN <<>>
  ELSE JoinLines(<<StatusLine>> \o [i \in 1..Len(shape) |-> HeaderLineOf(shape[i])])

CallParseCurl ==
  \E shape \in HeaderShapes :
    Called("parse_curl", shape, HeaderText(shape), 0, parse_curl(HeaderText(shape)))

\* "ping: h: Name or service not known"
StderrText ==
  <<"p","i","n","g",":"," ","h",":"," ","N","a","m","e"," ","o","r"," ","s","e","r","v","i","c",
    "e"," ","n","o","t"," ","k","n","o","w","n">>

\* what subprocess.run does with the command: it exceeds the timeout, it fails
\* otherwise (the program is missing, the output is no text), or the process
\* exits with a return code, its output captured
ProcResults ==
  {[kind |-> k, returncode |-> 0, stdout |-> <<>>, stderr |-> <<>>] :
     k \in {"timeout", "error"}}
  \cup [kind : {"exited"}, returncode : {0, 1, 2},
        stdout : {<<>>, PingStats100, HpingFlagsSA, CurlTimeText},
        stderr : {<<>>, StderrText, HpingBanner}]

\* a variant that drops standard error
run_command_stdout(proc) ==
  IF proc.kind \in {"timeout", "error"} THEN Return(None) ELSE Return(proc.stdout)

\* run_command: None from either handler, else result.stdout for return code
\* 0 and result.stdout + result.stderr for any other
run_command(proc) ==
  IF proc.kind \in {"timeout", "error"} THEN Return(None)
  ELSE Return(IF proc.returncode = 0 THEN proc.stdout ELSE proc.stdout \o proc.stderr)

\* the command printed with --debug changes nothing of the result
CallRunCommand ==
  \E proc \in ProcResults, debug \in BOOLEAN :
    Called("run_command", proc, proc.stdout, IF debug THEN 1 ELSE 0, run_command(proc))

\* what curl can leave as its last line: a time, a time with an exponent, a
\* sign or an underscore, inf, nan, 0, whitespace that strip() and float()
\* take off, and texts float() does not take
CurlOutputs ==
  {None, <<>>, CurlTimeText, CurlTimeExp, <<"-","1">>, <<"+","0",".","5">>,
   <<"1","_","0">>, <<"i","n","f">>, <<"n","a","n">>, <<"0">>, <<"x">>,
   <<"x","\n","2",".","6","7","5","\f">>, <<"0",".","5",VerticalTab>>,
   <<FileSep,"0",".","5",RecordSep>>, <<"x","\n",GroupSep,"0",".","5">>,
   <<NoBreakSpace,"0",".","5",NextLine>>}

CallMeasureCurlTime ==
  \E output \in CurlOutputs :
    Called("measure_curl_time", <<>>, output, 0, CurlTimeOf(output))

InitParse ==
  InitWith([targets |-> HostA, targets_file |-> NoTargetsFile,
            parallel |-> 1, repeat |-> 1, label_map |-> <<>>],
           NoFile)
NextParse ==
  \/ CallParseHping3
  \/ CallParseHping3Rst
  \/ CallParsePing
  \/ CallL4Ratios
  \/ CallParseCurl
  \/ CallRunCommand
  \/ CallMeasureCurlTime
SpecParse == InitParse /\ [][NextParse]_vars

(***************************************************************************)
(* Direct calls of write_csv, beside a run of main over one host           *)
(***************************************************************************)
\* rows handed to write_csv: one that lacks most columns, one with None and
\* with zeros, one with a value in every column
SparseRow == [host |-> PyStr(HostA), icmp_reachable |-> PyInt(0)]
NoneRow ==
  [c \in Columns |->
     CASE c = "timestamp" -> PyInt(StartTime)
       [] c = "host" -> PyStr(HostB)
       [] c \in {"ttl_return", "scan_time"} -> None
       [] c \in {"syn_ack_ratio", "tcp_reset_ratio"} -> PyFloat(0, 1)
       [] c \in {"icmp_reachable", "filtered_ports_count", "header_modified"} -> PyInt(0)
       [] OTHER -> Empty]
FullRow ==
  [c \in Columns |->
     CASE c = "timestamp" -> PyInt(StartTime)
       [] c = "host" -> PyStr(HostC)
       [] c = "avg_latency" -> PyFloat(5, 100000)
       [] c = "packet_loss" -> PyFloat(20, 1)
       [] c = "ttl_return" -> PyInt(64)
       [] c = "filtered_ports_count" -> PyInt(2)
       [] c = "scan_time" -> PyFloat(1235, 100)
       [] c = "syn_ack_ratio" -> PyFloat(3, 5)
       [] c = "tcp_reset_ratio" -> PyFloat(1, 5)
       [] c = "response_time" -> PyFloat(123457, 1000)
       [] c = "firewall_label" -> PyInt(0)
       [] OTHER -> PyInt(1)]
CsvRows == {SparseRow, NoneRow, FullRow}

\* the most rows of one direct call
MaxRows == 2
CsvData == UNION {[1..n -> CsvRows] : n \in 0..MaxRows}

\* write_csv(data, args.output, append) called on the file as the run found it
CallWriteCsv ==
  /\ call.fn = "none"
  /\ pc = "loop"
  /\ iteration = 0
  /\ \E data \in CsvData, append \in BOOLEAN :
       /\ file' = write_csv(data, file, append)
       /\ call' = [fn |-> "write_csv", shape |-> data, output |-> file,
                   sent |-> IF append THEN 1 ELSE 0,
                   result |-> write_csv(data, file, append)]
  /\ pc' = "called"
  /\ UNCHANGED <<args, targets, LABEL_MAP, iteration, all_features, total_collected, task, pool,
                 log, clock>>

InitCsv ==
  \E f \in InitialFiles :
    InitWith([targets |-> HostA, targets_file |-> NoTargetsFile,
            parallel |-> 1, repeat |-> 1, label_map |-> LabelArgA],
             f)
NextCsv ==
  \/ Startup
  \/ IterationStart
  \/ SeqCall
  \/ SeqReturn
  \/ TaskNext(HostInputs)
  \/ Tick
  \/ WriteResults
  \/ Summary
  \/ CallWriteCsv
SpecCsv == InitCsv /\ [][NextCsv]_vars

(***************************************************************************)
(* Properties                                                              *)
(***************************************************************************)
RaisedTasks == {i \in Tasks : task[i].status = "raised"}
ReturnedTasks == {i \in Tasks : task[i].status = "returned"}
\* main has ended: by its last line, by sys.exit(1) of the summary, by
\* sys.exit(1) before the loop, by the ValueError of a label
Terminated == pc \in {"done", "exit1", "exit1_setup", "raised"}

\* the rows of all_features are the rows of the calls that returned, each as
\* often as it was returned
RowsAreTheReturned ==
  /\ Len(all_features) = Cardinality(ReturnedTasks)
  /\ \A i \in ReturnedTasks :
       Cardinality({k \in 1..Len(all_features) : all_features[k] = task[i].features})
         = Cardinality({j \in ReturnedTasks : task[j].features = task[i].features})

ErrorLogged(host) ==
  \E k \in 1..Len(log) : log[k] = [msg |-> "Error collecting from", host |-> host]

\* C1: when the batch of an iteration is over and collect_features raised for
\* exactly one of its N hosts, every other host has run to completion, the
\* result list holds exactly the N-1 rows of the other hosts, unmodified, the
\* error naming the failing host is logged, and main goes on: it ends only
\* after the last iteration.
C1_OneFailureLeavesTheOthers ==
  /\ (BatchOver /\ Cardinality(RaisedTasks) = 1) =>
       /\ \A i \in Tasks \ RaisedTasks : task[i].status = "returned"
       /\ Len(all_features) = Len(targets) - 1
       /\ RowsAreTheReturned
       /\ \A i \in RaisedTasks : ErrorLogged(targets[i])
  /\ (RaisedTasks # {} /\ Terminated) => iteration = args.repeat

\* a concurrent batch of three hosts is over, one of which failed
C1_Witness ==
  /\ BatchOver
  /\ args.parallel > 1
  /\ Len(targets) = 3
  /\ Cardinality(RaisedTasks) = 1
  /\ Len(all_features) = 2

HeaderCount == Cardinality({k \in 1..Len(file.lines) : file.lines[k] = HeaderLine})

\* the timestamp cell of line k of the file
StampOf(k) == file.lines[k][1]

\* C2: after a run with repeat = 2 in which every host yielded a row in both
\* iterations, the file holds one header line, as its first line, and
\* 2 x hostCount data rows: the rows of iteration 1, then those of iteration 2,
\* each of which was begun after the pause that follows iteration 1.
C2_TwoIterationsOneHeader ==
  (pc = "done" /\ args.repeat = 2 /\ total_collected = 2 * Len(targets)) =>
    /\ file.exists
    /\ HeaderCount = 1
    /\ file.lines[1] = HeaderLine
    /\ Len(file.lines) = 1 + 2 * Len(targets)
    /\ \A j \in 2..(Len(targets) + 1) :
         /\ ToInt(StampOf(j)) >= StartTime
         /\ \A k \in (Len(targets) + 2)..(2 * Len(targets) + 1) :
              ToInt(StampOf(k)) >= ToInt(StampOf(j)) + IterationPause

\* two hosts, two iterations, four rows, the second host begun a second
\* after the first
C2_Witness ==
  /\ pc = "done"
  /\ args.repeat = 2
  /\ Len(targets) = 2
  /\ total_collected = 4
  /\ Len(file.lines) = 5
  /\ StampOf(2) # StampOf(3)

\* every probe task i has run so far returned None
AllAbsent(i) == \A k \in 1..Len(task[i].ran) : task[i].ran[k].output = None

\* C3: a call of collect_features all of whose probes return None raises
\* nothing and returns a row with icmp_reachable, filtered_ports_count and
\* header_modified 0, both ratios 0.0 and avg_latency, packet_loss, ttl_return,
\* scan_time and response_time empty; main adds that row to the batch.
C3_DarkHostStillYieldsRow ==
  \A i \in Tasks :
    AllAbsent(i) =>
      /\ task[i].status # "raised"
      /\ task[i].status = "returned" =>
           /\ task[i].features.icmp_reachable = PyInt(0)
           /\ task[i].features.filtered_ports_count = PyInt(0)
           /\ task[i].features.header_modified = PyInt(0)
           /\ task[i].features.syn_ack_ratio = PyFloat(0, 1)
           /\ task[i].features.tcp_reset_ratio = PyFloat(0, 1)
           /\ task[i].features.avg_latency = Empty
           /\ task[i].features.packet_loss = Empty
           /\ task[i].features.ttl_return = Empty
           /\ task[i].features.scan_time = Empty
           /\ task[i].features.response_time = Empty
      /\ (task[i].status = "returned" /\ BatchOver) =>
           \E k \in 1..Len(all_features) : all_features[k] = task[i].features

\* the batch is over and holds the row of a host none of whose probes answered
C3_Witness ==
  /\ BatchOver
  /\ \E i \in Tasks :
       /\ task[i].status = "returned"
       /\ AllAbsent(i)
       /\ Len(task[i].ran) = 10
       /\ \E k \in 1..Len(all_features) : all_features[k] = task[i].features

\* 0 <= v <= 1
InUnit(v) == IsFloat(v) /\ Num(v) >= 0 /\ Num(v) <= Den(v)

\* C4: parse_hping3 and parse_hping3_rst return a value in [0, 1] for every
\* probe text and every sent count, and 0.0 for sent count 0; so the
\* syn_ack_ratio and the tcp_reset_ratio of a row lie in [0, 1].
C4_RatiosInUnitInterval ==
  /\ call.fn \in {"parse_hping3", "parse_hping3_rst"} =>
       /\ InUnit(call.result)
       /\ call.sent = 0 => call.result = PyFloat(0, 1)
  /\ call.fn = "l4_ratios" =>
       /\ InUnit(call.result.syn_ack_ratio)
       /\ InUnit(call.result.tcp_reset_ratio)

\* more reply markers than probes sent: the ratio is cut to 1.0
C4_Witness ==
  /\ call.fn = "parse_hping3"
  /\ call.sent > 0
  /\ ReplyCount(call.output) > call.sent
  /\ call.result = PyFloat(1, 1)

\* the lines of a shape that are of one of the kinds ks
LinesOf(shape, ks) == Cardinality({k \in 1..Len(shape) : shape[k] \in ks})

\* min(1, k / n)
CappedRatio(k, n) == IF k > n THEN PyFloat(1, 1) ELSE PyFloat(k, n)

\* C5: for a SYN-test text with k reply lines, each with a flags= marker, a
\* len=<digits> marker or both, and n > 0 probes sent, parse_hping3 returns
\* min(1, k / n); only a text without any such marker is counted by its
\* '<digits> bytes from' lines.
C5_EachReplyLineCountsOnce ==
  (call.fn = "parse_hping3" /\ call.sent > 0 /\ call.output # None) =>
    LET k == LinesOf(call.shape, {"full_sa", "full_ra", "flags_sa", "len_only"})
    IN call.result =
         CappedRatio(IF k > 0 THEN k ELSE LinesOf(call.shape, {"bytes_from"}), call.sent)

\* three full reply lines for five probes: the code returns 1.0, not 0.6
C5_Witness ==
  /\ call.fn = "parse_hping3"
  /\ call.shape = <<"full_sa", "full_sa", "full_sa">>
  /\ call.sent = 5
  /\ call.result = PyFloat(1, 1)

\* C6: for an RST-test text and n > 0 probes sent, parse_hping3_rst returns
\* min(1, r / n), r the number of lines whose flags field contains R; a reply
\* with flags=SA adds nothing, whatever follows it on the line.
C6_OnlyResetFlagsCount ==
  (call.fn = "parse_hping3_rst" /\ call.sent > 0 /\ call.output # None) =>
    call.result = CappedRatio(LinesOf(call.shape, {"full_ra"}), call.sent)

\* one SYN/ACK reply for five probes: the code returns 0.2, not 0.0
C6_Witness ==
  /\ call.fn = "parse_hping3_rst"
  /\ call.shape = <<"full_sa">>
  /\ call.sent = 5
  /\ call.result = PyFloat(1, 5)

\* task i is past its first k probes
Past(i, k) == task[i].status \in {"running", "returned"} /\ Len(task[i].ran) >= k

\* the packet loss parse_ping reads from the output of probe k of task i,
\* Empty when that probe returned nothing
LossOf(i, k) ==
  IF Falsy(task[i].ran[k].output) THEN Empty
  ELSE parse_ping(task[i].ran[k].output).value.packet_loss

\* the worst of the two trials
WorstLoss(p1, p2) ==
  IF p1 = Empty /\ p2 # Empty THEN p2
  ELSE IF p1 # Empty /\ p2 # Empty /\ Gt(p2, p1) THEN p2
  ELSE p1

\* a value as the row holds it: rounded once collect_features has returned
AsHeld(i, v, decimals) ==
  IF task[i].status = "returned" /\ v # Empty THEN Round(v, decimals) ELSE v

\* C7: after the two pings packet_loss is the worst of the two trials: the loss
\* p2 of the large-packet ping when the first trial gave none and p2 is a
\* number, 0 included, or when p2 > p1; else the loss p1 of the first trial.
C7_PacketLossWorstOfTwo ==
  \A i \in Tasks :
    Past(i, 2) =>
      task[i].features.packet_loss = AsHeld(i, WorstLoss(LossOf(i, 1), LossOf(i, 2)), 2)

\* the standard ping gave nothing, the large-packet ping lost nothing: the row
\* is returned without a packet loss
C7_Witness ==
  \E i \in Tasks :
    /\ task[i].status = "returned"
    /\ LossOf(i, 1) = Empty
    /\ LossOf(i, 2) = PyFloat(0, 1)
    /\ task[i].features.packet_loss = Empty

\* the output of probe k of task i shows a reply
ReplyIn(i, k) == ~Falsy(task[i].ran[k].output) /\ ReplyMarker(task[i].ran[k].output)

\* C8 as claimed: icmp_reachable is 1 exactly if one of the two ping trials
\* shows a reply.
C8_ReachableIfAnyTrialReplied ==
  \A i \in Tasks :
    Past(i, 2) =>
      (task[i].features.icmp_reachable = PyInt(1) <=> (ReplyIn(i, 1) \/ ReplyIn(i, 2)))

\* C8 as amended: icmp_reachable is 1 exactly if the output of the standard
\* ping shows a reply; the large-packet ping does not change it.
C8_ReachableIfStandardPingReplied ==
  \A i \in Tasks :
    Past(i, 1) =>
      /\ task[i].features.icmp_reachable \in {PyInt(0), PyInt(1)}
      /\ task[i].features.icmp_reachable = PyInt(1) <=> ReplyIn(i, 1)

\* only the large-packet ping was answered: the row says unreachable
C8_Witness ==
  \E i \in Tasks :
    /\ task[i].status = "returned"
    /\ ~ReplyIn(i, 1)
    /\ ReplyIn(i, 2)
    /\ task[i].features.icmp_reachable = PyInt(0)

\* C9: for ping output that contains ttl=N, N in 1..255, parse_ping returns
\* ttl_return = N, with or without a reply marker in the output.
C9_TtlAlwaysParsed ==
  call.fn = "parse_ping" =>
    /\ ~call.result.raised
    /\ call.result.value.ttl_return = PyInt(call.sent)

\* a reply with ttl=64 whose summary has the average 2..5: parse_ping raises
\* and returns no ttl_return
C9_Witness ==
  /\ call.fn = "parse_ping"
  /\ call.shape = <<"unix_bad_rtt">>
  /\ call.sent = 64
  /\ ReplyMarker(call.output)
  /\ TtlSearch(call.output) = IntToStr(64)
  /\ RttFirst(call.output) = <<"2", ".", ".", "5">>
  /\ call.result.raised

\* the label --label-map gives a host, by the arguments of the run
ExpectedLabel(label_arg, host) ==
  CASE label_arg = LabelArgA /\ host = HostA -> PyInt(0)
    [] label_arg = LabelArgAB /\ host = HostA -> PyInt(2)
    [] label_arg = LabelArgAB /\ host = HostB -> PyInt(1)
    [] label_arg = LabelArgNeg /\ host = HostA -> PyInt(-1)
    [] label_arg = LabelArgNeg /\ host = HostB -> PyInt(10)
    [] label_arg = LabelArgSep /\ host = HostA -> PyInt(3)
    [] OTHER -> Empty

\* C10: the row of host h has firewall_label = M[h] if h is a key of the label
\* map M, by equality of the strings, and an empty firewall_label otherwise;
\* collection does not change M.
C10_LabelByExactKey ==
  /\ pc \notin {"start", "raised"} => LABEL_MAP = ParseLabelMap(args.label_map).value
  /\ \A i \in Tasks :
       task[i].status = "returned" =>
         task[i].features.firewall_label = ExpectedLabel(args.label_map, targets[i])
  /\ \A k \in 1..Len(all_features) :
       all_features[k].firewall_label = ExpectedLabel(args.label_map, all_features[k].host[2])

\* 10.0.0.10 stays unlabelled under a map whose only key is 10.0.0.1
C10_Witness ==
  /\ args.label_map = LabelArgA
  /\ targets = <<HostB>>
  /\ Len(all_features) = 1
  /\ all_features[1].firewall_label = Empty

\* the header line, column by column
HeaderCells ==
  <<ColTimestamp, ColHost, ColAvgLatency, ColPacketLoss, ColTtlReturn, ColIcmpReachable,
    ColFilteredPortsCount, ColScanTime, ColSynAckRatio, ColTcpResetRatio, ColResponseTime,
    ColHeaderModified, ColFirewallLabel>>

\* the names of the columns, in the order of the file
ColumnOrder ==
  <<"timestamp", "host", "avg_latency", "packet_loss", "ttl_return", "icmp_reachable",
    "filtered_ports_count", "scan_time", "syn_ack_ratio", "tcp_reset_ratio",
    "response_time", "header_modified", "firewall_label">>

NullTokens == {<<"N", "o", "n", "e">>, <<"n", "a", "n">>, <<"n", "u", "l", "l">>}

\* column c of the row is unset, missing or None
Unset(row, c) == c \notin DOMAIN row \/ row[c] = None \/ row[c] = Empty

\* the cell of column c of a row: empty, and so no null token, exactly for an
\* unset field, 0 for the integer 0 and 0.0 for the float 0.0
CellRight(row, c, cell) ==
  /\ Unset(row, c) <=> cell = <<>>
  /\ Unset(row, c) => cell \notin NullTokens
  /\ ~Unset(row, c) =>
       /\ row[c] = PyInt(0) => cell = <<"0">>
       /\ row[c] = PyFloat(0, 1) => cell = <<"0", ".", "0">>

\* the lines are those of the rows, one line of thirteen cells per row
LinesRight(rows, lines) ==
  /\ Len(lines) = Len(rows)
  /\ \A k \in 1..Len(rows) :
       /\ Len(lines[k]) = 13
       /\ \A n \in 1..13 : CellRight(rows[k], ColumnOrder[n], lines[k][n])

\* the last n lines of the file
LastLines(n) == SubSeq(file.lines, Len(file.lines) - n + 1, Len(file.lines))

\* C11: every row of collect_features has exactly the 13 columns, every file
\* begins with the header of the 13 names in their order, every line has 13
\* cells, and write_csv writes a field that is unset, missing or None as the
\* empty cell, never as a null token, and a 0 as 0.
C11_ThirteenColumnsEmptyForUnset ==
  /\ \A i \in Tasks :
       task[i].status \in {"running", "returned"} =>
         /\ DOMAIN task[i].features = {ColumnOrder[n] : n \in 1..13}
         /\ Cardinality(DOMAIN task[i].features) = 13
  /\ file.exists =>
       /\ file.lines[1] = HeaderCells
       /\ \A k \in 1..Len(file.lines) : Len(file.lines[k]) = 13
  /\ call.fn = "write_csv" => LinesRight(call.shape, LastLines(Len(call.shape)))
  /\ (pc = "loop" /\ iteration > 0 /\ all_features # <<>>) =>
       LinesRight(all_features, LastLines(Len(all_features)))

\* a row that lacks columns and a row with None and zeros have been written
C11_Witness ==
  /\ call.fn = "write_csv"
  /\ call.shape = <<SparseRow, NoneRow>>
  /\ LastLines(2)[1][6] = <<"0">>
  /\ LastLines(2)[1][1] = <<>>
  /\ LastLines(2)[2][5] = <<>>
  /\ LastLines(2)[2][9] = <<"0", ".", "0">>

\* C14: write_csv(rows, path, append) with append false or no file at path
\* leaves a file of one header line and the given rows; with append true and a
\* file at path it keeps the lines of the file, writes no header and adds the
\* given rows at the end.
C14_WriteOrAppend ==
  call.fn = "write_csv" =>
    LET data == call.shape
        old == call.output
    IN /\ file.exists
       /\ call.result = file
       /\ LastLines(Len(data)) = CsvLines(data)
       /\ IF call.sent = 1 /\ old.exists
          THEN /\ Len(file.lines) = Len(old.lines) + Len(data)
               /\ SubSeq(file.lines, 1, Len(old.lines)) = old.lines
               /\ \A k \in (Len(old.lines) + 1)..Len(file.lines) :
                    file.lines[k] # HeaderLine
          ELSE /\ Len(file.lines) = 1 + Len(data)
               /\ file.lines[1] = HeaderLine
               /\ HeaderCount = 1

\* two rows appended to the file of a former run
C14_Witness ==
  /\ call.fn = "write_csv"
  /\ call.sent = 1
  /\ call.output.exists
  /\ Len(call.shape) = 2
  /\ Len(file.lines) = 4
  /\ file.lines[2] = CsvLine(OldRow)

\* "via"
LitViaBare ==
  <<"v","i","a">>
\* "proxy-agent"
LitProxyAgentBare ==
  <<"p","r","o","x","y","-","a","g","e","n","t">>

\* the names of the claim, each without a colon
ClaimedHeaderNames == {LitViaBare, LitXCache, LitXProxy, LitProxyAgentBare, LitXForwarded}

\* C15: for present header output parse_curl returns header_modified = 1
\* exactly if the output contains, in any case, one of via, x-cache, x-proxy,
\* proxy-agent, x-forwarded, with or without a colon after it; for absent
\* output it returns 0.
C15_HeaderNamesWithoutColon ==
  call.fn = "parse_curl" =>
    IF call.output = None THEN call.result.header_modified = PyInt(0)
    ELSE call.result.header_modified =
           IF \E name \in ClaimedHeaderNames : Contains(LowerStr(call.output), name)
           THEN PyInt(1) ELSE PyInt(0)

\* the header X-Cache-Lookup: the code returns 0
C15_Witness ==
  /\ call.fn = "parse_curl"
  /\ call.shape = <<"x_cache_lookup">>
  /\ call.result.header_modified = PyInt(0)

\* C12: run_command never raises and has three outcomes: None on a timeout or
\* any other exception of the invocation, standard output alone for exit code
\* 0, standard output followed by standard error for any other exit code.
C12_RunCommandThreeOutcomes ==
  call.fn = "run_command" =>
    /\ ~call.result.raised
    /\ call.shape.kind \in {"timeout", "error"} => call.result.value = None
    /\ (call.shape.kind = "exited" /\ call.shape.returncode = 0) =>
         call.result.value = call.shape.stdout
    /\ (call.shape.kind = "exited" /\ call.shape.returncode # 0) =>
         /\ Len(call.result.value) = Len(call.shape.stdout) + Len(call.shape.stderr)
         /\ SubSeq(call.result.value, 1, Len(call.shape.stdout)) = call.shape.stdout
         /\ SubSeq(call.result.value, Len(call.shape.stdout) + 1, Len(call.result.value))
              = call.shape.stderr

\* a command that failed with output on both streams
C12_Witness ==
  /\ call.fn = "run_command"
  /\ call.shape.kind = "exited"
  /\ call.shape.returncode = 2
  /\ call.shape.stdout = PingStats100
  /\ call.shape.stderr = StderrText
  /\ call.result.value = PingStats100 \o StderrText

\* the diagnostic of a run without rows
NoDataLogged ==
  \E k \in 1..Len(log) : log[k] = [msg |-> "No data collected", host |-> <<>>]

\* C13: a run that collected no row ends with a nonzero exit status and a
\* diagnostic, by sys.exit(1) after the last iteration when the loop was
\* reached, and as long as no row is collected the file at the output path is
\* neither created nor changed; a run that collected a row does not end with
\* that exit.
C13_NoRowsNoFile ==
  /\ [](Terminated =>
          /\ total_collected = 0 <=> pc # "done"
          /\ pc # "done" => (log # <<>> /\ file \in InitialFiles)
          /\ pc = "exit1" => NoDataLogged
          /\ pc \in {"done", "exit1"} => iteration = args.repeat)
  /\ [][total_collected' = 0 => file' = file]_vars

\* two hosts failed in both iterations; the file of a former run is still there
C13_Witness ==
  /\ pc = "exit1"
  /\ args.repeat = 2
  /\ Len(targets) = 2
  /\ file.exists
  /\ Len(log) >= 4

\* the probes of L3, L4 and L7 that every call issues, in their order
ProbeOrder ==
  <<"ping", "ping_large", "nmap", "hping3", "hping3", "curl_time", "curl_headers">>

\* the probes task i has issued are a prefix of the fixed order, the requests
\* of the proxy sweep after them
ProbesInOrder(i) ==
  \A k \in 1..Len(task[i].ran) :
    task[i].ran[k].cmd = IF k <= Len(ProbeOrder) THEN ProbeOrder[k] ELSE "curl_proxy"

\* C16: a host task issues its probes in the order L3 (two pings), L4 (port
\* scan, SYN test, RST test), L7 (timing, header probe, optional sweep), one
\* after the other, and whatever the earlier probes returned it goes on to the
\* next phase: a task that has ended has been through every phase, was
\* labelled and returned its row.
C16_EveryPhaseInOrder ==
  \A i \in Tasks :
    /\ ProbesInOrder(i)
    /\ task[i].pc = "done" =>
         /\ Len(task[i].ran) >= Len(ProbeOrder)
         /\ task[i].status = "returned"

\* the summary line of the first ping is no number: the task has ended after
\* one probe, by an exception
C16_Witness ==
  \E i \in Tasks :
    /\ task[i].pc = "done"
    /\ task[i].status = "raised"
    /\ Len(task[i].ran) = 1
    /\ task[i].ran[1].output = PingBadRtt

\* the candidate ports of the sweep, in the order of the claim
SweepOrder == <<3128, 8080, 8888>>

\* the requests of the sweep task i has issued
SweepCount(i) == Len(task[i].ran) - Len(ProbeOrder)
SweepRan(i, k) == task[i].ran[Len(ProbeOrder) + k]

\* the direct header probe of task i found a proxy header
DirectModified(i) ==
  /\ ~Falsy(task[i].ran[Len(ProbeOrder)].output)
  /\ parse_curl(task[i].ran[Len(ProbeOrder)].output).header_modified = PyInt(1)

\* C17: the sweep runs only after a direct header probe that left
\* header_modified at 0; it asks the ports 3128, 8080, 8888 in that order, one
\* at a time; the first response with an indicator sets header_modified to 1
\* and ends the sweep; a sweep without a match leaves 0; after a direct probe
\* that set 1 no sweep request is issued and the value stays 1.
C17_SweepStopsAtFirstProxy ==
  \A i \in Tasks :
    Past(i, Len(ProbeOrder)) =>
      /\ SweepCount(i) <= Len(SweepOrder)
      /\ \A k \in 1..SweepCount(i) :
           /\ SweepRan(i, k).cmd = "curl_proxy"
           /\ SweepRan(i, k).port = SweepOrder[k]
      /\ \A k \in 1..(SweepCount(i) - 1) : ~ProxyDetected(SweepRan(i, k).output)
      /\ DirectModified(i) =>
           /\ SweepCount(i) = 0
           /\ task[i].features.header_modified = PyInt(1)
      /\ (~DirectModified(i) /\ task[i].pc = "curl_proxy") =>
           task[i].features.header_modified = PyInt(0)
      /\ (~DirectModified(i) /\ task[i].pc \in {"finish", "done"}) =>
           /\ SweepCount(i) >= 1
           /\ IF ProxyDetected(SweepRan(i, SweepCount(i)).output)
              THEN task[i].features.header_modified = PyInt(1)
              ELSE /\ SweepCount(i) = Len(SweepOrder)
                   /\ task[i].features.header_modified = PyInt(0)

\* the second candidate answered as a proxy: the third was not asked
C17_Witness ==
  \E i \in Tasks :
    /\ task[i].status = "returned"
    /\ SweepCount(i) = 2
    /\ ~ProxyDetected(SweepRan(i, 1).output)
    /\ SweepRan(i, 2).port = 8080
    /\ ProxyDetected(SweepRan(i, 2).output)
    /\ task[i].features.header_modified = PyInt(1)

\* the fields a step of collect_features may write, by the probe it is at
WritesOf(at) ==
  CASE at = "ping" -> {"avg_latency", "packet_loss", "ttl_return", "icmp_reachable"}
    [] at = "ping_large" -> {"packet_loss"}
    [] at = "nmap" -> {"filtered_ports_count", "scan_time"}
    [] at = "hping3_80" -> {"syn_ack_ratio"}
    [] at = "hping3_22" -> {"tcp_reset_ratio"}
    [] at = "curl_time" -> {"response_time"}
    [] at \in {"curl_headers", "curl_proxy"} -> {"header_modified"}
    [] at = "finish" -> {"avg_latency", "scan_time", "packet_loss", "syn_ack_ratio",
                         "tcp_reset_ratio", "response_time", "firewall_label"}
    [] OTHER -> {}

\* the changes of a value that is not empty: the packet loss raised by the
\* large-packet ping, header_modified set by the sweep, the final rounding
OverrideAllowed(at, c, old, new) ==
  \/ at = "ping_large" /\ c = "packet_loss" /\ Gt(new, old)
  \/ at = "curl_proxy" /\ c = "header_modified" /\ old = PyInt(0) /\ new = PyInt(1)
  \/ at = "finish" /\ c \in DOMAIN decimal_formats /\ new = Round(old, decimal_formats[c])

\* C18: within one call of collect_features a step writes only the fields of
\* its own phase, and a field that holds a value is changed only by the
\* large-packet ping raising packet_loss, by the sweep setting header_modified
\* from 0 to 1, and by the final rounding; timestamp and host never change.
C18_LaterPhasesOnlyFill ==
  [][\A i \in Tasks :
       (task[i].status = "running" /\ task'[i].status \in {"running", "returned", "raised"}) =>
         \A c \in Columns :
           task'[i].features[c] # task[i].features[c] =>
             /\ c \in WritesOf(task[i].pc)
             /\ task[i].features[c] # Empty =>
                  OverrideAllowed(task[i].pc, c, task[i].features[c], task'[i].features[c])]_vars

\* the large-packet ping has raised the packet loss from 0 to 20
C18_Witness ==
  \E i \in Tasks :
    /\ Past(i, 2)
    /\ LossOf(i, 1) = PyFloat(0, 1)
    /\ LossOf(i, 2) = PyFloat(20, 1)
    /\ task[i].features.packet_loss = PyFloat(20, 1)

\* the number of host tasks that may run at a time
PoolSize == IF args.parallel > 1 THEN args.parallel ELSE 1

\* C19: in every iteration each entry of the target list is run as one task,
\* a host named twice as two; at most as many tasks run at a time as the pool
\* has threads, and with --parallel 1 or less one task runs at a time, the
\* next host started only after the one before has returned or raised.
C19_OneTaskPerEntryWithinPool ==
  /\ Cardinality(Held) <= PoolSize
  /\ Running \subseteq Held
  /\ Len(task) = IF pc = "exit1_setup" THEN 0 ELSE Len(targets)
  /\ \A i \in Tasks :
       task[i].status \in {"running", "returned", "raised"} =>
         task[i].features.host = PyStr(targets[i])
  /\ \A j, k \in 1..Len(pool.order) : j # k => pool.order[j] # pool.order[k]
  /\ {pool.order[k] : k \in 1..Len(pool.order)} = {i \in Tasks : Finished(i)}
  /\ BatchOver => \A i \in Tasks : Finished(i)
  /\ args.parallel <= 1 =>
       \A i \in Tasks :
         task[i].status # "idle" =>
           /\ task[i].status \notin {"queued", "taken"}
           /\ \A j \in 1..(i - 1) : Finished(j)

\* three hosts for a pool of two threads: two run, the third waits
C19_Witness ==
  /\ args.parallel = 2
  /\ Len(targets) = 3
  /\ Cardinality(Running) = 2
  /\ task[3].status = "queued"
  /\ task[1].features.host = PyStr(HostA)

\* the place of task i in the order of completion
DoneAt(i) == CHOOSE k \in 1..Len(pool.order) : pool.order[k] = i

\* the rows of the tasks of a sequential batch dealt with so far, in list order
RECURSIVE RowsUpTo(_)
RowsUpTo(n) ==
  IF n = 0 THEN <<>>
  ELSE IF task[n].status = "returned" THEN Append(RowsUpTo(n - 1), task[n].features)
  ELSE RowsUpTo(n - 1)

\* main alone adds to the result list, one row per step, and starts it anew
\* only at the top of an iteration
RowsAddedOneByOne ==
  all_features' # all_features =>
    \/ pc = "loop" /\ all_features' = <<>>
    \/ /\ pc \in {"as_completed", "in_call"}
       /\ \E i \in pool.yielded' \ pool.yielded :
            all_features' = Append(all_features, task[i].features)

\* the sequential loop gathers the rows in the order of the target list, the
\* batch is written as gathered, and the lines of an iteration follow those of
\* the iterations before it: its calls began after the pause, those of a
\* sequential batch one after the other
RowsWrittenAsGathered ==
  /\ pc \in {"sequential", "in_call"} => all_features = RowsUpTo(pool.submitted)
  /\ (pc = "loop" /\ iteration > 0 /\ all_features # <<>>) =>
       LastLines(Len(all_features)) = CsvLines(all_features)
  /\ (pc = "loop" /\ iteration > 0 /\ all_features # <<>>) =>
       \A k \in (Len(file.lines) - Len(all_features) + 1)..Len(file.lines) :
         /\ \A j \in 2..(Len(file.lines) - Len(all_features)) :
              ToInt(StampOf(j)) + IterationPause <= ToInt(StampOf(k))
         /\ args.parallel <= 1 =>
              \A j \in (Len(file.lines) - Len(all_features) + 1)..k :
                ToInt(StampOf(j)) <= ToInt(StampOf(k))

\* C20 as claimed: under concurrent execution the rows are added by main one
\* at a time in the order in which the host tasks completed; the sequential
\* loop keeps the order of the list; the file keeps the order of the batch and
\* of the iterations.
C20_RowsInCompletionOrder ==
  /\ [][RowsAddedOneByOne]_vars
  /\ [][(pc = "as_completed" /\ pool.yielded' # pool.yielded) =>
          \A i \in pool.yielded' \ pool.yielded :
            \A j \in Tasks \ pool.yielded : Finished(j) => DoneAt(i) <= DoneAt(j)]_vars
  /\ []RowsWrittenAsGathered

\* C20 as amended: under concurrent execution the rows are added by main one
\* at a time in the order as_completed yields the tasks: those that were
\* complete when main began to wait come first, in no particular order, the
\* others after them in the order in which they completed; the rest as claimed.
C20_RowsInYieldOrder ==
  /\ [][RowsAddedOneByOne]_vars
  /\ [][(pc = "as_completed" /\ pool.yielded' # pool.yielded) =>
          \A i \in pool.yielded' \ pool.yielded :
            /\ Finished(i)
            /\ i \notin pool.initial =>
                 /\ pool.initial \subseteq pool.yielded
                 /\ \A j \in Tasks \ (pool.yielded \cup pool.initial) :
                      Finished(j) => DoneAt(i) <= DoneAt(j)]_vars
  /\ []RowsWrittenAsGathered

\* host 2 was begun before host 1 and completed after it, both before main
\* began to wait, and the row of host 2 is the first of the batch
C20_Witness ==
  /\ pc = "as_completed"
  /\ {1, 2} \subseteq pool.initial
  /\ DoneAt(1) < DoneAt(2)
  /\ pool.yielded = {2}
  /\ all_features = <<task[2].features>>
  /\ task[1].status = "returned"
  /\ task[2].features.timestamp[2] < task[1].features.timestamp[2]

\* C21: at the end of a run that collected a row, whatever the repeat count,
\* whichever hosts failed in which iteration and whether or not the output
\* file was there before the run, the file holds exactly one header line and
\* as many data rows as the summary counts.
C21_FileMatchesSummary ==
  pc = "done" =>
    /\ file.exists
    /\ HeaderCount = 1
    /\ file.lines[1] = HeaderLine
    /\ Len(file.lines) - 1 = total_collected

\* the first iteration collected nothing, the second one row: the row of the
\* former run is still in the file, two data rows for a summary of one
C21_Witness ==
  /\ pc = "done"
  /\ args.repeat = 2
  /\ total_collected = 1
  /\ Len(file.lines) = 3
  /\ file.lines[2] = CsvLine(OldRow)

====
